---- MODULE Spec2Model ----
(***************************************************************************)
(* A model of ssh-agent-mux: the socket registry (SocketManager), the      *)
(* forwarded-agent discovery (watcher), the control server's request       *)
(* handler, the daemon's tasks (run_daemon) and the multiplexing agent's   *)
(* identity listing.                                                        *)
(***************************************************************************)
EXTENDS Integers, Sequences, FiniteSets

VARIABLES
    socket_manager,   \* SocketManager: configured_sockets, watched_sockets, last_health_check
    clock,            \* the last value SystemTime::now() returned
    fs,               \* the paths (files and directories) that exist on disk
    request,          \* the agent request in progress: its snapshot, the upstreams contacted, the reply
    config,           \* cli::Config as parsed at startup: watch_for_ssh_forward, whether a health interval is set
    pc,               \* run_daemon's position: "scan", "watch", "running", "exited"
    startup_agents,   \* the agents run_daemon's startup scan returned
    watcher_status,   \* WatcherStatus: "Active", "Disabled", "PollingFallback"
    os_watches,       \* the directories the debouncer's OS watcher is subscribed to
    watched_dirs,     \* SmartWatcher::watched_dirs
    os_events,        \* debounced file events not yet handed to the watcher's callback
    channel,          \* the unbounded channel of WatchEvents
    poll,             \* run_polling_loop: its position and known_agents
    ctl,              \* a control request between two of its critical sections
    conn,             \* one control connection: the lines received, the responses written
    probe             \* a path handed to is_ssh_forwarded_agent, and the answer

regVars == <<socket_manager, clock>>
daemonVars == <<config, pc, startup_agents, watcher_status>>
watcherVars == <<os_watches, watched_dirs, os_events, channel, poll>>
vars == <<socket_manager, clock, fs, request, config, pc, startup_agents, watcher_status,
          os_watches, watched_dirs, os_events, channel, poll, ctl, conn, probe>>

----------------------------------------------------------------------------
(* Bounds of the model. *)

\* SystemTime::now() is read from 0..MaxClock.
MaxClock == 1

\* A file change is held back while MaxEvents debounced events wait for the
\* watcher's callback.
MaxEvents == 2

\* A sender is held back while MaxChannel WatchEvents wait in the channel.
MaxChannel == 2

----------------------------------------------------------------------------
(* Paths.  A path is named by a short identifier in the state; Components   *)
(* gives its components, each a sequence of characters.                     *)

TmpName == <<"t", "m", "p">>
SshA == <<"s", "s", "h", "-", "a">>
SshB == <<"s", "s", "h", "-", "b">>
Agent1 == <<"a", "g", "e", "n", "t", ".", "1">>
Agent2 == <<"a", "g", "e", "n", "t", ".", "2">>
HomeName == <<"h", "o", "m", "e">>
SockName == <<"a", ".", "s", "o", "c", "k">>

Components(p) ==
    CASE p = "/tmp" -> <<TmpName>>
      [] p = "/tmp/ssh-a" -> <<TmpName, SshA>>
      [] p = "/tmp/ssh-b" -> <<TmpName, SshB>>
      [] p = "/tmp/ssh-a/agent.1" -> <<TmpName, SshA, Agent1>>
      [] p = "/tmp/ssh-b/agent.2" -> <<TmpName, SshB, Agent2>>
      [] p = "/home/a.sock" -> <<HomeName, SockName>>

TmpPath == "/tmp"
\* The directories of /tmp the model creates and removes.
Dirs == {"/tmp/ssh-a", "/tmp/ssh-b"}
\* The socket files the model creates and removes.
Files == {"/tmp/ssh-a/agent.1", "/tmp/ssh-b/agent.2", "/home/a.sock"}
Paths == Dirs \cup Files \cup {TmpPath}

\* Path::parent: the path of the components but the last (None for the root).
Parent(p) ==
    CHOOSE q \in Paths \cup {"/", "/home"} :
        IF q \in Paths
        THEN Components(q) = SubSeq(Components(p), 1, Len(Components(p)) - 1)
        ELSE (q = "/" /\ p = TmpPath) \/ (q = "/home" /\ p = "/home/a.sock")

\* Option<T>: None is <<>>, Some(v) is <<v>>.
None == <<>>
Some(v) == <<v>>

----------------------------------------------------------------------------
(* socket_manager.rs: the registry.  watched_sockets is a HashMap; it is    *)
(* kept as the sequence of its entries in the map's iteration order, which  *)
(* an insertion may rearrange arbitrarily.                                  *)

\* WatchedSocket::new
NewWatchedSocket(path, now) ==
    [path |-> path, created_at |-> now, last_healthy |-> None,
     last_health_check |-> None, key_count |-> None]

\* SocketManager::new
NewSocketManager(configured) ==
    [configured_sockets |-> configured, watched_sockets |-> <<>>,
     last_health_check |-> None]

Range(s) == {s[i] : i \in 1..Len(s)}

WatchedPaths(m) == {m.watched_sockets[i].path : i \in 1..Len(m.watched_sockets)}

\* SocketManager::is_watched
is_watched(m, path) == path \in WatchedPaths(m)

\* SocketManager::is_configured
is_configured(m, path) == path \in Range(m.configured_sockets)

watched_count(m) == Len(m.watched_sockets)
configured_count(m) == Len(m.configured_sockets)
total_count(m) == watched_count(m) + configured_count(m)

\* The comparator reversed, a.created_at.cmp(b.created_at): oldest first.
InsertSortedAsc(s, x) ==
    LET k == Cardinality({i \in 1..Len(s) : s[i].created_at <= x.created_at})
    IN SubSeq(s, 1, k) \o <<x>> \o SubSeq(s, k + 1, Len(s))

\* The position of x in a slice sorted by the comparator b.created_at.cmp(a.created_at):
\* a stable sort keeps x behind the elements that compare equal to it.
InsertSorted(s, x) ==
    LET k == Cardinality({i \in 1..Len(s) : s[i].created_at >= x.created_at})
    IN SubSeq(s, 1, k) \o <<x>> \o SubSeq(s, k + 1, Len(s))

RECURSIVE SortNewestFirst(_)
\* watched.sort_by(|a, b| b.created_at.cmp(&a.created_at)): stable, descending.
SortNewestFirst(s) ==
    IF s = <<>> THEN <<>>
    ELSE InsertSorted(SortNewestFirst(SubSeq(s, 1, Len(s) - 1)), s[Len(s)])

\* The two halves swapped: the configured paths first, then the watched ones.
get_ordered_sockets_ConfiguredFirst(m) ==
    LET watched == SortNewestFirst(m.watched_sockets)
    IN m.configured_sockets \o [i \in 1..Len(watched) |-> watched[i].path]

\* SocketManager::get_ordered_sockets
get_ordered_sockets(m) ==
    LET watched == SortNewestFirst(m.watched_sockets)
    IN [i \in 1..Len(watched) |-> watched[i].path] \o m.configured_sockets

\* The orders in which the map may iterate over entries es.
IterationOrders(es) ==
    {s \in [1..Cardinality(es) -> es] : \A i, j \in 1..Cardinality(es) : i # j => s[i] # s[j]}

\* HashMap::insert of a new key: the entry lands anywhere, and a resize may
\* move the others.
MapInsert(ws, e) == IterationOrders(Range(ws) \cup {e})

\* HashMap::remove / retain: the entries whose path is in keep stay, in their
\* slots.
MapRetain(ws, keep) ==
    LET F[i \in 0..Len(ws)] ==
            IF i = 0 THEN <<>>
            ELSE IF ws[i].path \in keep THEN Append(F[i - 1], ws[i]) ELSE F[i - 1]
    IN F[Len(ws)]

\* An add_watched that refuses a configured path too.
add_watched_UnlessConfigured(m, path, now, ws) ==
    IF is_watched(m, path) \/ is_configured(m, path)
    THEN [mgr |-> m, ret |-> FALSE]
    ELSE [mgr |-> [m EXCEPT !.watched_sockets = ws], ret |-> TRUE]

\* SocketManager::add_watched, with the iteration order ws the map ends in:
\* the registry after the call and the value returned.
add_watched(m, path, now, ws) ==
    IF is_watched(m, path)
    THEN [mgr |-> m, ret |-> FALSE]
    ELSE [mgr |-> [m EXCEPT !.watched_sockets = ws], ret |-> TRUE]

\* The iteration orders add_watched(path) at time now may leave.
AddOrders(m, path, now) ==
    IF is_watched(m, path) THEN {m.watched_sockets}
    ELSE MapInsert(m.watched_sockets, NewWatchedSocket(path, now))

\* A remove_watched that reports a removal whether or not the key was there.
remove_watched_AlwaysTrue(m, path) ==
    [mgr |-> [m EXCEPT !.watched_sockets =
                  MapRetain(m.watched_sockets, WatchedPaths(m) \ {path})],
     ret |-> TRUE]

\* SocketManager::remove_watched
remove_watched(m, path) ==
    IF is_watched(m, path)
    THEN [mgr |-> [m EXCEPT !.watched_sockets =
                        MapRetain(m.watched_sockets, WatchedPaths(m) \ {path})],
          ret |-> TRUE]
    ELSE [mgr |-> m, ret |-> FALSE]

\* An update_configured that extends the sequence instead of replacing it.
update_configured_Merge(m, configured) ==
    [m EXCEPT !.configured_sockets = m.configured_sockets \o configured]

\* SocketManager::update_configured
update_configured(m, configured) == [m EXCEPT !.configured_sockets = configured]

\* A validate_and_cleanup that drops the missing configured paths as well.
validate_and_cleanup_Configured(m, disk) ==
    LET gone == MapRetain(m.watched_sockets, WatchedPaths(m) \ disk)
    IN [mgr |-> [m EXCEPT !.watched_sockets = MapRetain(m.watched_sockets, disk),
                          !.configured_sockets =
                              SelectSeq(m.configured_sockets, LAMBDA q : q \in disk)],
        removed |-> [i \in 1..Len(gone) |-> gone[i].path]]

\* SocketManager::validate_and_cleanup against the disk: the registry after the
\* call and the removed paths, in the map's iteration order.
validate_and_cleanup(m, disk) ==
    LET gone == MapRetain(m.watched_sockets, WatchedPaths(m) \ disk)
    IN [mgr |-> [m EXCEPT !.watched_sockets =
                     MapRetain(m.watched_sockets, disk)],
        removed |-> [i \in 1..Len(gone) |-> gone[i].path]]

----------------------------------------------------------------------------
(* The values SystemTime::now() may return after it returned c: the wall    *)
(* clock may not have advanced between two readings.                        *)
NowAfter(c) == {t \in c..(c + 1) : t <= MaxClock}

\* The configurations the configuration file may hold (agent_sock_paths).
ConfigChoices ==
    {<<>>, <<"/home/a.sock">>, <<"/home/a.sock", "/home/a.sock">>,
     <<"/tmp/ssh-a/agent.1", "/home/a.sock">>}

----------------------------------------------------------------------------
(* SpecRegistry: the registry under any sequence of calls of its methods,    *)
(* from SocketManager::new(vec![]).                                         *)

NoRequest == [state |-> "idle"]
NoControl == [op |-> "idle"]
PollOff == [pc |-> "off", known_agents |-> {}]
NoConnection == [state |-> "none"]
NoProbe == [state |-> "none"]

\* No daemon around the registry: nothing of run_daemon has run.
NoDaemon ==
    /\ config = [watch_for_ssh_forward |-> FALSE, health_check |-> FALSE]
    /\ pc = "scan"
    /\ startup_agents = {}
    /\ watcher_status = "Disabled"
    /\ os_watches = {}
    /\ watched_dirs = {}
    /\ os_events = <<>>
    /\ channel = <<>>
    /\ poll = PollOff
    /\ ctl = NoControl
    /\ conn = NoConnection
    /\ probe = NoProbe

InitRegistry ==
    /\ socket_manager = NewSocketManager(<<>>)
    /\ clock = 0
    /\ fs = {TmpPath}
    /\ request = NoRequest
    /\ NoDaemon

AddWatchedCall(p) ==
    \E now \in NowAfter(clock) : \E ws \in AddOrders(socket_manager, p, now) :
        /\ socket_manager' = add_watched(socket_manager, p, now, ws).mgr
        /\ clock' = now
        /\ UNCHANGED <<fs, request, conn, probe, daemonVars, watcherVars, ctl>>

RemoveWatchedCall(p) ==
    /\ socket_manager' = remove_watched(socket_manager, p).mgr
    /\ UNCHANGED <<clock, fs, request, conn, probe, daemonVars, watcherVars, ctl>>

UpdateConfiguredCall(c) ==
    /\ socket_manager' = update_configured(socket_manager, c)
    /\ UNCHANGED <<clock, fs, request, conn, probe, daemonVars, watcherVars, ctl>>

NextRegistry ==
    \/ \E p \in Files : AddWatchedCall(p)
    \/ \E p \in Files : RemoveWatchedCall(p)
    \/ \E c \in ConfigChoices : UpdateConfiguredCall(c)

SpecRegistry == InitRegistry /\ [][NextRegistry]_vars

----------------------------------------------------------------------------
(* The ordered view, stated from the registry's fields alone.               *)

\* created_at of the watched entry of path p.
CreatedAt(m, p) ==
    (CHOOSE e \in Range(m.watched_sockets) : e.path = p).created_at

\* res is the watched entries, newest first, then the configured paths in order.
IsOrderedView(res, m) ==
    LET n == Len(m.watched_sockets)
    IN /\ Len(res) = n + Len(m.configured_sockets)
       /\ {res[i] : i \in 1..n} = WatchedPaths(m)
       /\ \A i, j \in 1..n : i < j =>
              /\ res[i] # res[j]
              /\ CreatedAt(m, res[i]) >= CreatedAt(m, res[j])
       /\ \A k \in 1..Len(m.configured_sockets) : res[n + k] = m.configured_sockets[k]

\* No path occurs twice in s.
NoRepeats(s) == \A i, j \in 1..Len(s) : i # j => s[i] # s[j]

\* C1 (as amended): after any sequence of add_watched, remove_watched and
\* update_configured calls, get_ordered_sockets() is the watched entries in
\* descending created_at order, each watched path once, followed by the
\* configured paths in their current order; its length is watched_count +
\* configured_count, so a path that configured repeats, or that is both watched
\* and configured, is repeated in the result.
C1_OrderedView == IsOrderedView(get_ordered_sockets(socket_manager), socket_manager)

\* C1 (as claimed): ... and every path occurs exactly once in the result.
C1_EveryPathOnce ==
    /\ IsOrderedView(get_ordered_sockets(socket_manager), socket_manager)
    /\ NoRepeats(get_ordered_sockets(socket_manager))

\* C1 witness: the map iterates an older entry before a newer one, so the sort
\* has reordered them, and configured paths follow.
C1_Witness ==
    /\ \E i, j \in 1..Len(socket_manager.watched_sockets) :
          /\ i < j
          /\ socket_manager.watched_sockets[i].created_at
                < socket_manager.watched_sockets[j].created_at
    /\ Len(socket_manager.configured_sockets) >= 1

----------------------------------------------------------------------------
(* SpecAgent: one RequestIdentities request of the multiplexing agent at a  *)
(* time, while the registry is mutated through its methods.                 *)

\* The identities an upstream agent holds.
Identities(p) ==
    CASE p = "/tmp/ssh-a/agent.1" -> <<"ed25519">>
      [] p = "/tmp/ssh-b/agent.2" -> <<"ecdsa">>
      [] p = "/home/a.sock" -> <<"rsa", "ed25519">>

\* An upstream that fails: the request fails with it.
ListStepFailing(r, answers) ==
    [r EXCEPT !.contacted = Append(@, r.snapshot[Len(r.contacted) + 1]),
              !.answered = Append(@, answers),
              !.failed = @ \/ ~answers,
              !.reply = IF answers
                        THEN @ \o Identities(r.snapshot[Len(r.contacted) + 1])
                        ELSE @]

\* The capture of the ordered snapshot under the registry lock, before the request
\* is handled.
TakeSnapshot(m) == get_ordered_sockets(m)

\* One upstream of the snapshot contacted, in snapshot order: its identities are
\* appended when it connected and answered, and it is skipped otherwise.
ListStep(r, answers) ==
    [r EXCEPT !.contacted = Append(@, r.snapshot[Len(r.contacted) + 1]),
              !.answered = Append(@, answers),
              !.reply = IF answers
                        THEN @ \o Identities(r.snapshot[Len(r.contacted) + 1])
                        ELSE @]

\* The agent accepts a RequestIdentities request.  view_was_ordered records that
\* the snapshot was the registry's ordered view at that instant.
RequestIdentities ==
    /\ request.state # "listing"
    /\ request' = [state |-> "listing",
                   snapshot |-> TakeSnapshot(socket_manager),
                   view_at_start |-> get_ordered_sockets(socket_manager),
                   view_was_ordered |->
                       IsOrderedView(get_ordered_sockets(socket_manager), socket_manager),
                   contacted |-> <<>>, answered |-> <<>>, failed |-> FALSE,
                   reply |-> <<>>]
    /\ UNCHANGED <<socket_manager, clock, fs, daemonVars, watcherVars, ctl, conn, probe>>

\* The agent opens a fresh connection to the next upstream and asks for its
\* identities; the upstream answers or fails.
ContactUpstream ==
    /\ request.state = "listing"
    /\ Len(request.contacted) < Len(request.snapshot)
    /\ \E answers \in BOOLEAN : request' = ListStep(request, answers)
    /\ UNCHANGED <<socket_manager, clock, fs, daemonVars, watcherVars, ctl, conn, probe>>

\* Every upstream of the snapshot was contacted: the reply is sent.
ReplyIdentities ==
    /\ request.state = "listing"
    /\ Len(request.contacted) = Len(request.snapshot)
    /\ request' = [request EXCEPT !.state = IF request.failed THEN "failure" ELSE "replied"]
    /\ UNCHANGED <<socket_manager, clock, fs, daemonVars, watcherVars, ctl, conn, probe>>

InitAgent == InitRegistry

NextAgent ==
    \/ NextRegistry
    \/ RequestIdentities
    \/ ContactUpstream
    \/ ReplyIdentities

SpecAgent == InitAgent /\ [][NextAgent]_vars

\* The registry differs from the one the request's snapshot was taken of.
RegistryMovedOn ==
    /\ request.state # "idle"
    /\ get_ordered_sockets(socket_manager) # request.view_at_start

RECURSIVE ConcatAnswered(_, _)
\* The identity lists of the upstreams of ups that answered, concatenated in order.
ConcatAnswered(ups, answered) ==
    IF ups = <<>> THEN <<>>
    ELSE (IF Head(answered) THEN Identities(Head(ups)) ELSE <<>>)
             \o ConcatAnswered(Tail(ups), Tail(answered))

\* C4: the reply of a RequestIdentities request is the concatenation, in snapshot
\* order, of the identity lists of the upstreams that answered; an upstream that
\* failed contributes nothing, the request never ends in failure, and the reply is
\* empty when every upstream failed.
C4_ConcatOfAnswered ==
    /\ request.state # "failure"
    /\ request.state # "idle" =>
          request.reply = ConcatAnswered(request.contacted, request.answered)
    /\ (request.state = "replied" /\ \A i \in 1..Len(request.answered) : ~request.answered[i])
          => request.reply = <<>>

\* C4 witness: a reply where an upstream that failed lies between two that
\* answered.
C4_Witness ==
    /\ request.state = "replied"
    /\ \E i, j, k \in 1..Len(request.answered) :
          /\ i < j /\ j < k
          /\ request.answered[i] /\ ~request.answered[j] /\ request.answered[k]

----------------------------------------------------------------------------
(* watcher.rs: which paths are forwarded agents, the scan of /tmp, and the  *)
(* events of the smart watcher.                                             *)

FileName(p) == Components(p)[Len(Components(p))]

\* str::starts_with
StartsWith(name, prefix) ==
    /\ Len(name) >= Len(prefix)
    /\ SubSeq(name, 1, Len(prefix)) = prefix

Prefix(text) == [kind |-> "Prefix", text |-> text]
Exact(text) == [kind |-> "Exact", text |-> text]

\* NamePattern::matches
Matches(pattern, candidate) ==
    IF pattern.kind = "Exact"
    THEN candidate = pattern.text
    ELSE StartsWith(candidate, pattern.text)

FORWARDED_AGENT_PATTERNS ==
    << [dir_pattern |-> Prefix(<<"s", "s", "h", "-">>),
        file_pattern |-> Prefix(<<"a", "g", "e", "n", "t", ".">>)],
       [dir_pattern |-> Prefix(<<"a", "u", "t", "h", "-", "a", "g", "e", "n", "t">>),
        file_pattern |-> Exact(<<"l", "i", "s", "t", "e", "n", "e", "r", ".", "s", "o", "c", "k">>)] >>

should_watch_directory(p) ==
    \/ StartsWith(FileName(p), <<"s", "s", "h", "-">>)
    \/ StartsWith(FileName(p), <<"a", "u", "t", "h", "-", "a", "g", "e", "n", "t">>)

\* An is_ssh_forwarded_agent that takes the directory pattern of one pair
\* with the file pattern of another.
IsSshForwardedAgent_AnyPair(absolute, components) ==
    /\ absolute
    /\ Len(components) >= 2
    /\ components[1] = TmpName
    /\ \E i, j \in 1..Len(FORWARDED_AGENT_PATTERNS) :
           /\ Matches(FORWARDED_AGENT_PATTERNS[i].dir_pattern,
                      components[Len(components) - 1])
           /\ Matches(FORWARDED_AGENT_PATTERNS[j].file_pattern,
                      components[Len(components)])

\* is_ssh_forwarded_agent on a path given as its components after the root
\* (absolute) or from the current directory: Path::starts_with("/tmp"), then
\* the names of the parent and of the file against one pattern pair.
IsSshForwardedAgent(absolute, components) ==
    /\ absolute
    /\ Len(components) >= 2
    /\ components[1] = TmpName
    /\ \E i \in 1..Len(FORWARDED_AGENT_PATTERNS) :
           /\ Matches(FORWARDED_AGENT_PATTERNS[i].dir_pattern,
                      components[Len(components) - 1])
           /\ Matches(FORWARDED_AGENT_PATTERNS[i].file_pattern,
                      components[Len(components)])

\* is_ssh_forwarded_agent on one of the model's paths, all of them absolute.
is_ssh_forwarded_agent(p) == IsSshForwardedAgent(TRUE, Components(p))

\* The agents scan_existing_agents finds on a disk holding the paths of disk:
\* for every directory of /tmp and every pattern its name matches, the file
\* of the exact name, or the entries of the prefix.
AgentsOnDisk(disk) ==
    {a \in Files \cap disk :
        \E d \in Dirs \cap disk, i \in 1..Len(FORWARDED_AGENT_PATTERNS) :
            LET pattern == FORWARDED_AGENT_PATTERNS[i] IN
            /\ Parent(d) = TmpPath
            /\ Parent(a) = d
            /\ Matches(pattern.dir_pattern, FileName(d))
            /\ IF pattern.file_pattern.kind = "Exact"
               THEN FileName(a) = pattern.file_pattern.text
               ELSE /\ StartsWith(FileName(a), pattern.file_pattern.text)
                    /\ is_ssh_forwarded_agent(a)}

\* scan_existing_agents: Ok with the agents found, in the order read_dir
\* lists them, or the Err of a failed read_dir.
scan_existing_agents(disk) ==
    {[ok |-> TRUE, agents |-> order] : order \in IterationOrders(AgentsOnDisk(disk))}
        \cup {[ok |-> FALSE, agents |-> <<>>]}

Added(path) == [event |-> "Added", path |-> path]
Removed(path) == [event |-> "Removed", path |-> path]

\* A callback that subscribes to the directory it sees created and forgets
\* no directory.
handle_smart_event_Subscribes(event, disk, dirs) ==
    CASE event.kind = "CreateFolder" ->
            [sent |-> <<>>, watched_dirs |-> dirs \cup {event.path}]
      [] event.kind \in {"CreateFile", "Modify"} ->
            [sent |-> IF is_ssh_forwarded_agent(event.path) /\ event.path \in disk
                      THEN <<Added(event.path)>> ELSE <<>>,
             watched_dirs |-> dirs]
      [] event.kind = "Remove" ->
            [sent |-> IF is_ssh_forwarded_agent(event.path)
                      THEN <<Removed(event.path)>> ELSE <<>>,
             watched_dirs |-> dirs]

\* handle_smart_event on one debounced event: the WatchEvents it sends and
\* the watched_dirs it leaves.
handle_smart_event(event, disk, dirs) ==
    CASE event.kind = "CreateFolder" ->
            [sent |-> <<>>, watched_dirs |-> dirs]
      [] event.kind \in {"CreateFile", "Modify"} ->
            [sent |-> IF is_ssh_forwarded_agent(event.path) /\ event.path \in disk
                      THEN <<Added(event.path)>> ELSE <<>>,
             watched_dirs |-> dirs]
      [] event.kind = "Remove" ->
            [sent |-> IF is_ssh_forwarded_agent(event.path)
                      THEN <<Removed(event.path)>> ELSE <<>>,
             watched_dirs |-> IF Parent(event.path) = TmpPath
                              THEN dirs \ {event.path} ELSE dirs]

\* for agent in agents { manager.add_watched(agent) }: every outcome of the
\* loop, with the clock readings and the map orders it can meet.
RECURSIVE AddAll(_, _, _)
AddAll(m, c, agents) ==
    IF agents = <<>>
    THEN {[mgr |-> m, clock |-> c, added |-> 0]}
    ELSE UNION { UNION {
            {[mgr |-> rest.mgr, clock |-> rest.clock,
              added |-> rest.added + (IF is_watched(m, Head(agents)) THEN 0 ELSE 1)] :
                rest \in AddAll(add_watched(m, Head(agents), now, ws).mgr, now, Tail(agents))} :
            ws \in AddOrders(m, Head(agents), now)} : now \in NowAfter(c)}

----------------------------------------------------------------------------
(* control/server.rs: handle_request.  Each arm is an operator from the     *)
(* registry (and the disk it looks at) to the registry it leaves and the    *)
(* ControlResponse it returns.                                              *)

Success(message) == [type |-> "Success", message |-> message]
Error(error) == [type |-> "Error", error |-> error]

\* The AddSocket arm without its is_configured test.
handle_AddSocket_WatchedOnly(m, path, disk, now, ws) ==
    IF path \notin disk
    THEN [mgr |-> m, response |-> Error("Socket does not exist")]
    ELSE IF is_watched(m, path)
    THEN [mgr |-> m, response |-> Error("Socket already tracked")]
    ELSE [mgr |-> add_watched(m, path, now, ws).mgr, response |-> Success("Added socket")]

\* ControlRequest::AddSocket
handle_AddSocket(m, path, disk, now, ws) ==
    IF path \notin disk
    THEN [mgr |-> m, response |-> Error("Socket does not exist")]
    ELSE IF is_watched(m, path) \/ is_configured(m, path)
    THEN [mgr |-> m, response |-> Error("Socket already tracked")]
    ELSE LET r == add_watched(m, path, now, ws) IN
         IF r.ret
         THEN [mgr |-> r.mgr, response |-> Success("Added socket")]
         ELSE [mgr |-> r.mgr, response |-> Error("Failed to add socket")]

\* The RemoveSocket arm without its is_configured test.
handle_RemoveSocket_Unchecked(m, path) ==
    LET r == remove_watched(m, path) IN
    IF r.ret
    THEN [mgr |-> r.mgr, response |-> Success("Removed socket")]
    ELSE [mgr |-> r.mgr, response |-> Error("Socket not found in watched list")]

\* The RemoveSocket arm taking a configured path out of the configuration.
handle_RemoveSocket_DropConfigured(m, path) ==
    IF is_configured(m, path)
    THEN [mgr |-> update_configured(m, SelectSeq(m.configured_sockets, LAMBDA q : q # path)),
          response |-> Success("Removed socket")]
    ELSE handle_RemoveSocket_Unchecked(m, path)

\* ControlRequest::RemoveSocket
handle_RemoveSocket(m, path) ==
    IF is_configured(m, path)
    THEN [mgr |-> m, response |-> Error("Cannot remove configured socket (edit config file instead)")]
    ELSE LET r == remove_watched(m, path) IN
         IF r.ret
         THEN [mgr |-> r.mgr, response |-> Success("Removed socket")]
         ELSE [mgr |-> r.mgr, response |-> Error("Socket not found in watched list")]

\* ControlRequest::ValidateSockets
handle_ValidateSockets(m, disk) ==
    LET r == validate_and_cleanup(m, disk) IN
    [mgr |-> r.mgr,
     response |-> IF r.removed = <<>>
                  THEN Success(<<"All sockets healthy">>)
                  ELSE Success(<<"Removed stale socket(s)", Len(r.removed), r.removed>>)]

\* A Reload arm that scans whether or not watching is enabled.
handle_Reload_start_Unguarded(enabled, scan) ==
    IF ~scan.ok
    THEN [scanned |-> TRUE, response |-> Some(Error("Failed to scan for agents"))]
    ELSE [scanned |-> TRUE, response |-> None, agents |-> scan.agents]

\* ControlRequest::Reload up to the lock: the refusal when watching is
\* disabled, else the scan, whose outcome is scan, and the answer to its
\* failure.  No response yet when the scan returned Ok(agents).
handle_Reload_start(enabled, scan) ==
    IF ~enabled
    THEN [scanned |-> FALSE,
          response |-> Some(Error("SSH forwarding watch is not enabled"))]
    ELSE IF ~scan.ok
    THEN [scanned |-> TRUE, response |-> Some(Error("Failed to scan for agents"))]
    ELSE [scanned |-> TRUE, response |-> None, agents |-> scan.agents]

\* A Reload arm that adds the scanned agents and validates nothing.
handle_Reload_NoCleanup(m, c, agents, disk) ==
    {[mgr |-> o.mgr, clock |-> o.clock,
      response |-> Success(<<"Reload complete", o.added, 0>>)] :
        o \in AddAll(m, c, agents)}

\* ControlRequest::Reload once the scan has returned Ok(agents): every
\* outcome of adding the agents and cleaning up against the disk.
handle_Reload(m, c, agents, disk) ==
    {LET r == validate_and_cleanup(o.mgr, disk) IN
     [mgr |-> r.mgr, clock |-> o.clock,
      response |-> Success(<<"Reload complete", o.added, Len(r.removed)>>)] :
        o \in AddAll(m, c, agents)}

\* A daemon that takes the watching branch whatever its configuration says.
watch_always(cfg) == TRUE

\* state.watch_enabled, and run_daemon's if config.watch_for_ssh_forward
watch_enabled(cfg) == cfg.watch_for_ssh_forward

----------------------------------------------------------------------------
(* bin/ssh-agent-mux/main.rs: run_daemon, its tasks, and the file system    *)
(* and the operator around it.                                              *)

\* The paths that come and go around the daemon: one forwarded agent in
\* its directory, and one socket outside /tmp.
DaemonPaths == {TmpPath, "/tmp/ssh-a", "/tmp/ssh-a/agent.1", "/home/a.sock"}

\* The disks the daemon can start on: /tmp, and under it and /home any of
\* the paths whose directory is there too.
StartDisks ==
    {disk \in SUBSET DaemonPaths :
        /\ TmpPath \in disk
        /\ \A p \in disk \ {TmpPath} : Parent(p) \in disk \cup {"/home"}}

\* The upstreams the configuration file lists when the daemon reads it.
DaemonConfigs == {<<>>, <<"/home/a.sock">>, <<"/tmp/ssh-a/agent.1", "/home/a.sock">>}

Init ==
    /\ \E configured \in DaemonConfigs : socket_manager = NewSocketManager(configured)
    /\ clock = 0
    /\ fs \in StartDisks
    /\ request = NoRequest
    /\ config \in [watch_for_ssh_forward : BOOLEAN, health_check : BOOLEAN]
    /\ pc = "scan"
    /\ startup_agents = {}
    /\ watcher_status = IF config.watch_for_ssh_forward THEN "Active" ELSE "Disabled"
    /\ os_watches = {}
    /\ watched_dirs = {}
    /\ os_events = <<>>
    /\ channel = <<>>
    /\ poll = PollOff
    /\ ctl = NoControl
    /\ conn = NoConnection
    /\ probe = NoProbe

\* The debounced event the OS watcher queues for a change of path p, when
\* the directory of p is subscribed.
Notify(kind, p) ==
    IF Parent(p) \in os_watches
    THEN /\ Len(os_events) < MaxEvents
         /\ os_events' = Append(os_events, [kind |-> kind, path |-> p])
    ELSE UNCHANGED os_events

\* Something outside the daemon creates a directory or a socket file.
FsCreate(p) ==
    /\ pc # "exited"
    /\ p \in DaemonPaths \ {TmpPath}
    /\ p \notin fs
    /\ Parent(p) \in fs \cup {"/home"}
    /\ fs' = fs \cup {p}
    /\ Notify(IF p \in Dirs THEN "CreateFolder" ELSE "CreateFile", p)
    /\ UNCHANGED <<regVars, request, conn, probe, daemonVars, os_watches, watched_dirs, channel, poll, ctl>>

\* Something outside the daemon removes a socket file or an empty directory;
\* the subscription of a removed directory goes with it.
FsRemove(p) ==
    /\ pc # "exited"
    /\ p \in fs \ {TmpPath}
    /\ \A q \in fs \ {TmpPath} : Parent(q) # p
    /\ fs' = fs \ {p}
    /\ Notify("Remove", p)
    /\ os_watches' = os_watches \ {p}
    /\ UNCHANGED <<regVars, request, conn, probe, daemonVars, watched_dirs, channel, poll, ctl>>

\* run_daemon, watching enabled: the startup scan and the add_watched of
\* every agent it returned.
StartupScan ==
    /\ pc = "scan"
    /\ watch_enabled(config)
    /\ \E scan \in scan_existing_agents(fs) :
          IF scan.ok
          THEN \E o \in AddAll(socket_manager, clock, scan.agents) :
                  /\ socket_manager' = o.mgr
                  /\ clock' = o.clock
                  /\ startup_agents' = Range(scan.agents)
          ELSE UNCHANGED <<regVars, startup_agents>>
    /\ pc' = "watch"
    /\ UNCHANGED <<fs, request, conn, probe, config, watcher_status, watcherVars, ctl>>

\* run_daemon, watching disabled: no scan, no watcher, no event handler.
StartWithoutWatch ==
    /\ pc = "scan"
    /\ ~watch_enabled(config)
    /\ pc' = "running"
    /\ UNCHANGED <<regVars, fs, request, conn, probe, config, startup_agents, watcher_status, watcherVars, ctl>>

\* A run_daemon that keeps the status it chose before start_watching.
StartWatching_StatusKept ==
    /\ pc = "watch"
    /\ \/ \E granted \in SUBSET {d \in Dirs \cap fs :
                                    Parent(d) = TmpPath /\ should_watch_directory(d)} :
             /\ os_watches' = {TmpPath} \cup granted
             /\ watched_dirs' = granted
             /\ poll' = poll
       \/ /\ poll' = [pc |-> "initial_scan", known_agents |-> {}]
          /\ UNCHANGED <<os_watches, watched_dirs>>
    /\ pc' = "running"
    /\ UNCHANGED <<regVars, fs, request, conn, probe, config, startup_agents,
                   watcher_status, os_events, channel, ctl>>

\* start_watching: the smart watcher subscribes to /tmp and to those of its
\* ssh-*/auth-agent* directories whose watch the OS grants, or its creation
\* fails and the polling loop is spawned instead.
StartWatching ==
    /\ pc = "watch"
    /\ \/ \E granted \in SUBSET {d \in Dirs \cap fs :
                                    Parent(d) = TmpPath /\ should_watch_directory(d)} :
             /\ os_watches' = {TmpPath} \cup granted
             /\ watched_dirs' = granted
             /\ watcher_status' = "Active"
             /\ poll' = poll
       \/ /\ watcher_status' = "PollingFallback"
          /\ poll' = [pc |-> "initial_scan", known_agents |-> {}]
          /\ UNCHANGED <<os_watches, watched_dirs>>
    /\ pc' = "running"
    /\ UNCHANGED <<regVars, fs, request, conn, probe, config, startup_agents, os_events, channel, ctl>>

\* The debouncer's callback: handle_smart_event on the next debounced event.
DebouncerCallback ==
    /\ pc # "exited"
    /\ os_events # <<>>
    /\ LET r == handle_smart_event(Head(os_events), fs, watched_dirs) IN
          /\ Len(channel) < MaxChannel
          /\ channel' = channel \o r.sent
          /\ watched_dirs' = r.watched_dirs
    /\ os_events' = Tail(os_events)
    /\ UNCHANGED <<regVars, fs, request, conn, probe, daemonVars, os_watches, poll, ctl>>

\* The event handler task: one WatchEvent received and applied.
EventHandler ==
    /\ pc = "running"
    /\ channel # <<>>
    /\ LET event == Head(channel) IN
          IF event.event = "Added"
          THEN \E now \in NowAfter(clock) :
               \E ws \in AddOrders(socket_manager, event.path, now) :
                  /\ socket_manager' = add_watched(socket_manager, event.path, now, ws).mgr
                  /\ clock' = now
          ELSE /\ socket_manager' = remove_watched(socket_manager, event.path).mgr
               /\ clock' = clock
    /\ channel' = Tail(channel)
    /\ UNCHANGED <<fs, request, conn, probe, daemonVars, os_watches, watched_dirs, os_events, poll, ctl>>

\* run_polling_loop: the initial scan fills known_agents.
PollInitialScan ==
    /\ pc = "running"
    /\ poll.pc = "initial_scan"
    /\ \E scan \in scan_existing_agents(fs) :
          poll' = [pc |-> "ticking", known_agents |-> Range(scan.agents)]
    /\ UNCHANGED <<regVars, fs, request, conn, probe, daemonVars, os_watches, watched_dirs, os_events, channel, ctl>>

\* A polling loop that never replaces known_agents.
PollTick_KeepKnown ==
    /\ pc = "running"
    /\ poll.pc = "ticking"
    /\ \E scan \in scan_existing_agents(fs) :
          IF scan.ok
          THEN LET current_set == Range(scan.agents) IN
               \E new \in IterationOrders(current_set \ poll.known_agents) :
               \E gone \in IterationOrders(poll.known_agents \ current_set) :
                  /\ Len(channel) < MaxChannel
                  /\ channel' = channel \o [i \in 1..Len(new) |-> Added(new[i])]
                                        \o [i \in 1..Len(gone) |-> Removed(gone[i])]
                  /\ poll' = poll
          ELSE UNCHANGED <<channel, poll>>
    /\ UNCHANGED <<regVars, fs, request, conn, probe, daemonVars, os_watches, watched_dirs, os_events, ctl>>

\* run_polling_loop: one tick; Added for the agents new since the last scan,
\* then Removed for those gone, and known_agents replaced.
PollTick ==
    /\ pc = "running"
    /\ poll.pc = "ticking"
    /\ \E scan \in scan_existing_agents(fs) :
          IF scan.ok
          THEN LET current_set == Range(scan.agents) IN
               \E new \in IterationOrders(current_set \ poll.known_agents) :
               \E gone \in IterationOrders(poll.known_agents \ current_set) :
                  /\ Len(channel) < MaxChannel
                  /\ channel' = channel \o [i \in 1..Len(new) |-> Added(new[i])]
                                        \o [i \in 1..Len(gone) |-> Removed(gone[i])]
                  /\ poll' = [poll EXCEPT !.known_agents = current_set]
          ELSE UNCHANGED <<channel, poll>>
    /\ UNCHANGED <<regVars, fs, request, conn, probe, daemonVars, os_watches, watched_dirs, os_events, ctl>>

\* A health check task that only logs.
HealthTick_NoCleanup ==
    /\ pc = "running"
    /\ config.health_check
    /\ UNCHANGED vars

\* The health check task: one tick.
HealthTick ==
    /\ pc = "running"
    /\ config.health_check
    /\ socket_manager' = validate_and_cleanup(socket_manager, fs).mgr
    /\ UNCHANGED <<clock, fs, request, conn, probe, daemonVars, watcherVars, ctl>>

\* run_daemon returns: the watcher is dropped with it.
Exit ==
    /\ pc' = "exited"
    /\ os_watches' = {}
    /\ UNCHANGED <<regVars, fs, request, conn, probe, config, startup_agents, watcher_status,
                   watched_dirs, os_events, channel, poll, ctl>>

\* SIGHUP: the configuration is parsed again and update_configured takes
\* its upstreams; a configuration that does not parse ends run_daemon.
Sighup ==
    /\ pc = "running"
    /\ \/ \E configured \in DaemonConfigs :
             /\ socket_manager' = update_configured(socket_manager, configured)
             /\ UNCHANGED <<clock, fs, request, conn, probe, daemonVars, watcherVars, ctl>>
       \/ Exit

\* SIGINT or SIGTERM
Terminate ==
    /\ pc = "running"
    /\ Exit

\* Ping, Status, ListSockets, ListKeys: answered from the state as it is.
ReadOnlyRequest ==
    /\ pc = "running"
    /\ \E req \in {"Ping", "Status", "ListSockets", "ListKeys"} : UNCHANGED vars

AddSocketRequest(path) ==
    /\ pc = "running"
    /\ \E now \in NowAfter(clock) :
       \E ws \in AddOrders(socket_manager, path, now) :
          LET r == handle_AddSocket(socket_manager, path, fs, now, ws) IN
          /\ socket_manager' = r.mgr
          /\ clock' = IF r.response.type = "Success" THEN now ELSE clock
    /\ UNCHANGED <<fs, request, conn, probe, daemonVars, watcherVars, ctl>>

RemoveSocketRequest(path) ==
    /\ pc = "running"
    /\ socket_manager' = handle_RemoveSocket(socket_manager, path).mgr
    /\ UNCHANGED <<clock, fs, request, conn, probe, daemonVars, watcherVars, ctl>>

ValidateSocketsRequest ==
    /\ pc = "running"
    /\ socket_manager' = handle_ValidateSockets(socket_manager, fs).mgr
    /\ UNCHANGED <<clock, fs, request, conn, probe, daemonVars, watcherVars, ctl>>

\* Reload: refused when watching is disabled; otherwise the scan, which
\* other tasks run alongside.
ReloadRequest ==
    /\ pc = "running"
    /\ ctl = NoControl
    /\ \E scan \in scan_existing_agents(fs) :
          LET start == handle_Reload_start(watch_enabled(config), scan) IN
          IF start.response = None
          THEN ctl' = [op |-> "Reload", agents |-> start.agents]
          ELSE UNCHANGED ctl
    /\ UNCHANGED <<regVars, fs, request, conn, probe, daemonVars, watcherVars>>

\* Reload, the scan returned: the agents are added and the registry cleaned.
ReloadApply ==
    /\ pc = "running"
    /\ ctl.op = "Reload"
    /\ \E r \in handle_Reload(socket_manager, clock, ctl.agents, fs) :
          /\ socket_manager' = r.mgr
          /\ clock' = r.clock
    /\ ctl' = NoControl
    /\ UNCHANGED <<fs, request, conn, probe, daemonVars, watcherVars>>

\* HealthCheck: the snapshot is taken under the lock; the probes then run
\* without it and leave the registry alone, while other tasks run.
HealthCheckRequest ==
    /\ pc = "running"
    /\ ctl = NoControl
    /\ ctl' = [op |-> "HealthCheck"]
    /\ UNCHANGED <<regVars, fs, request, conn, probe, daemonVars, watcherVars>>

\* HealthCheck, the probes done: validate_and_cleanup under the lock again.
HealthCheckCleanup ==
    /\ pc = "running"
    /\ ctl.op = "HealthCheck"
    /\ socket_manager' = validate_and_cleanup(socket_manager, fs).mgr
    /\ ctl' = NoControl
    /\ UNCHANGED <<clock, fs, request, conn, probe, daemonVars, watcherVars>>

\* What the daemon does of itself.
DaemonStep ==
    \/ StartupScan
    \/ StartWithoutWatch
    \/ StartWatching
    \/ DebouncerCallback
    \/ EventHandler
    \/ PollInitialScan
    \/ PollTick
    \/ HealthTick

FsStep == \E p \in DaemonPaths : FsCreate(p) \/ FsRemove(p)

ControlStep ==
    \/ ReadOnlyRequest
    \/ \E path \in Files \cap DaemonPaths : AddSocketRequest(path) \/ RemoveSocketRequest(path)
    \/ ValidateSocketsRequest
    \/ ReloadRequest
    \/ ReloadApply
    \/ HealthCheckRequest
    \/ HealthCheckCleanup

Next ==
    \/ DaemonStep
    \/ FsStep
    \/ ControlStep
    \/ Sighup
    \/ Terminate

Spec == Init /\ [][Next]_vars

\* The daemon with nobody at its control socket and no signal: what
\* discovery does of itself as the file system changes.  Every task of the
\* runtime, the debouncer's thread and run_daemon's startup get to run.
NextDiscovery == DaemonStep \/ FsStep

Fairness ==
    /\ WF_vars(StartupScan)
    /\ WF_vars(StartWithoutWatch)
    /\ WF_vars(StartWatching)
    /\ WF_vars(DebouncerCallback)
    /\ WF_vars(EventHandler)
    /\ WF_vars(PollInitialScan)
    /\ WF_vars(PollTick)
    /\ WF_vars(HealthTick)

SpecDiscovery == Init /\ [][NextDiscovery]_vars /\ Fairness

----------------------------------------------------------------------------
(* Claims about the daemon.                                                 *)

ForwardedAgent == "/tmp/ssh-a/agent.1"
HomeSocket == "/home/a.sock"

\* C2: in every reachable state of the daemon no path is both watched and
\* configured.
C2_WatchedConfiguredDisjoint ==
    \A p \in Files : ~(is_watched(socket_manager, p) /\ is_configured(socket_manager, p))

\* C5: with the smart watcher active, a forwarded-agent socket created in a
\* /tmp/ssh-* directory that was itself created after the watcher started
\* eventually becomes a watched entry (or is gone again), with no control
\* request.
C5_LateDirectoryAgentWatched ==
    []((pc = "running" /\ watcher_status = "Active" /\ Parent(ForwardedAgent) \notin fs)
          => []((ForwardedAgent \in fs)
                   ~> (is_watched(socket_manager, ForwardedAgent) \/ ForwardedAgent \notin fs)))

\* C6: with watching enabled, a forwarded-agent socket that the startup scan
\* found, and that is deleted, is eventually no longer watched (or is back
\* on disk).
C6_DeletedStartupAgentUnwatched ==
    (/\ config.watch_for_ssh_forward
     /\ ForwardedAgent \in startup_agents
     /\ is_watched(socket_manager, ForwardedAgent)
     /\ ForwardedAgent \notin fs)
        ~> (~is_watched(socket_manager, ForwardedAgent) \/ ForwardedAgent \in fs)

\* The daemon runs with watching disabled and nothing of discovery exists.
NoDiscovery ==
    /\ watcher_status = "Disabled"
    /\ startup_agents = {}
    /\ os_watches = {}
    /\ watched_dirs = {}
    /\ os_events = <<>>
    /\ channel = <<>>
    /\ poll = PollOff
    /\ ctl.op # "Reload"

\* C7: with watching disabled no scan, watcher or polling loop runs, and a
\* path enters watched only in the step of an AddSocket request for it that
\* found it on disk and tracked nowhere; so every watched entry was added by
\* a successful AddSocket.
C7_WatchDisabled ==
    /\ [](~config.watch_for_ssh_forward => NoDiscovery)
    /\ [][~config.watch_for_ssh_forward =>
            \A p \in Files :
                (~is_watched(socket_manager, p) /\ is_watched(socket_manager', p)) =>
                    /\ AddSocketRequest(p)
                    /\ p \in fs
                    /\ ~is_configured(socket_manager, p)]_vars

\* C7: watching is disabled, the forwarded agent is on disk and not watched,
\* and the socket an AddSocket named is.
C7_Witness ==
    /\ ~config.watch_for_ssh_forward
    /\ pc = "running"
    /\ ForwardedAgent \in fs
    /\ ~is_watched(socket_manager, ForwardedAgent)
    /\ is_watched(socket_manager, HomeSocket)

\* What AddSocket of path must do in the present state, whatever the clock
\* reads and however the map orders its entries.
AddSocketContract(path) ==
    LET m == socket_manager
        addable == path \in fs /\ ~is_watched(m, path) /\ ~is_configured(m, path)
    IN  \A now \in NowAfter(clock) :
        \A ws \in AddOrders(m, path, now) :
           LET r == handle_AddSocket(m, path, fs, now, ws) IN
           /\ r.response.type = "Success" <=> addable
           /\ addable =>
                /\ r.response = Success("Added socket")
                /\ Range(r.mgr.watched_sockets)
                       = Range(m.watched_sockets) \cup {NewWatchedSocket(path, now)}
                /\ Len(r.mgr.watched_sockets) = Len(m.watched_sockets) + 1
                /\ r.mgr.configured_sockets = m.configured_sockets
                /\ \A now2 \in NowAfter(now) :
                   \A ws2 \in AddOrders(r.mgr, path, now2) :
                      LET again == handle_AddSocket(r.mgr, path, fs, now2, ws2) IN
                      /\ again.response = Error("Socket already tracked")
                      /\ again.mgr = r.mgr
           /\ ~addable =>
                /\ r.response = IF path \notin fs
                                THEN Error("Socket does not exist")
                                ELSE Error("Socket already tracked")
                /\ r.mgr = m

\* C8: AddSocket adds the path to watched and answers Success iff the path
\* is on disk, not watched and not configured; otherwise it answers the
\* "does not exist" or the "already tracked" Error and leaves the registry as
\* it was; a second AddSocket of the path answers "already tracked".
C8_AddSocket == \A path \in Files : AddSocketContract(path)

\* C8: an AddSocket has added the socket under /home, which is still on
\* disk and not configured, while the forwarded agent is not on disk.
C8_Witness ==
    /\ pc = "running"
    /\ HomeSocket \in fs
    /\ is_watched(socket_manager, HomeSocket)
    /\ ~is_configured(socket_manager, HomeSocket)
    /\ ForwardedAgent \notin fs
    /\ ~is_watched(socket_manager, ForwardedAgent)

\* What RemoveSocket of path must do in the present state.
RemoveSocketContract(path) ==
    LET m == socket_manager
        r == handle_RemoveSocket(m, path)
        removable == is_watched(m, path) /\ ~is_configured(m, path)
    IN  /\ r.response.type = "Success" <=> removable
        /\ removable =>
             /\ r.response = Success("Removed socket")
             /\ Range(r.mgr.watched_sockets)
                    = {e \in Range(m.watched_sockets) : e.path # path}
             /\ Len(r.mgr.watched_sockets) = Len(m.watched_sockets) - 1
             /\ r.mgr.configured_sockets = m.configured_sockets
        /\ is_configured(m, path) =>
             /\ r.response = Error("Cannot remove configured socket (edit config file instead)")
             /\ r.mgr = m
        /\ (~is_watched(m, path) /\ ~is_configured(m, path)) =>
             /\ r.response = Error("Socket not found in watched list")
             /\ r.mgr = m

\* C9: RemoveSocket removes the watched entry and answers Success iff the
\* path is watched and not configured; for a configured path it answers the
\* Error that names the configuration, for a path neither watched nor
\* configured the not-found Error, and in both the registry stays as it was.
C9_RemoveSocket == \A path \in Files : RemoveSocketContract(path)

\* C9: one socket is watched and not configured, another is configured and
\* the third is neither.
C9_Witness ==
    /\ pc = "running"
    /\ is_watched(socket_manager, ForwardedAgent)
    /\ ~is_configured(socket_manager, ForwardedAgent)
    /\ is_configured(socket_manager, HomeSocket)
    /\ ~is_watched(socket_manager, HomeSocket)

\* C10: a step that changes configured_sockets is the update_configured of
\* a SIGHUP reload and is the step of no control request.
C10_ConfiguredFrame ==
    [][socket_manager'.configured_sockets # socket_manager.configured_sockets =>
          /\ Sighup
          /\ ~ControlStep]_vars

\* C10: the configuration lists an upstream, an AddSocket has added the
\* forwarded agent with watching disabled, and a HealthCheck is between its
\* two critical sections.
C10_Witness ==
    /\ pc = "running"
    /\ ~config.watch_for_ssh_forward
    /\ socket_manager.configured_sockets = <<HomeSocket>>
    /\ is_watched(socket_manager, ForwardedAgent)
    /\ ctl.op = "HealthCheck"

----------------------------------------------------------------------------
(* SpecMethods: the registry under any sequence of calls of its methods,    *)
(* validate_and_cleanup and update_socket_health included, on a disk that   *)
(* changes between the calls.                                               *)

\* format_system_time: the instant as an RFC 3339 string.
format_system_time(time) == [rfc3339 |-> time]

\* The SocketInfo of the watched entry that is the order-th of the list.  The
\* paths of the registry are UTF-8 text, which display() renders as it is.
WatchedInfo(socket, order, disk) ==
    [path |-> socket.path,
     source |-> "watched",
     added_at |-> Some(format_system_time(socket.created_at)),
     healthy |-> IF socket.last_healthy = None
                 THEN socket.path \in disk
                 ELSE socket.last_healthy[1],
     last_health_check |-> IF socket.last_health_check = None
                           THEN None
                           ELSE Some(format_system_time(socket.last_health_check[1])),
     key_count |-> socket.key_count,
     order |-> order]

\* The SocketInfo of the configured path that is the order-th of the list.
ConfiguredInfo(path, order, disk) ==
    [path |-> path,
     source |-> "configured",
     added_at |-> None,
     healthy |-> path \in disk,
     last_health_check |-> None,
     key_count |-> None,
     order |-> order]

\* A get_socket_info that numbers the configured paths from 1 again.
get_socket_info_Renumbered(m, disk) ==
    LET watched == SortNewestFirst(m.watched_sockets)
    IN  [i \in 1..Len(watched) |-> WatchedInfo(watched[i], i, disk)]
        \o [i \in 1..Len(m.configured_sockets) |->
                ConfiguredInfo(m.configured_sockets[i], i, disk)]

\* SocketManager::get_socket_info, on the disk that path.exists() reads.
get_socket_info(m, disk) ==
    LET watched == SortNewestFirst(m.watched_sockets)
    IN  [i \in 1..Len(watched) |-> WatchedInfo(watched[i], i, disk)]
        \o [i \in 1..Len(m.configured_sockets) |->
                ConfiguredInfo(m.configured_sockets[i], Len(watched) + i, disk)]

\* An update_socket_health that stamps the registry only when it stamps an
\* entry.
update_socket_health_WatchedOnly(m, path, healthy, key_count, checked, now) ==
    [m EXCEPT
        !.watched_sockets =
            [i \in 1..Len(m.watched_sockets) |->
                IF m.watched_sockets[i].path = path
                THEN [m.watched_sockets[i] EXCEPT !.last_healthy = Some(healthy),
                                                  !.last_health_check = Some(checked),
                                                  !.key_count = key_count]
                ELSE m.watched_sockets[i]],
        !.last_health_check = IF is_watched(m, path) THEN Some(now) ELSE @]

\* SocketManager::update_socket_health: checked is the clock reading stored
\* in the entry, now the later one stored in the registry.
update_socket_health(m, path, healthy, key_count, checked, now) ==
    [m EXCEPT
        !.watched_sockets =
            [i \in 1..Len(m.watched_sockets) |->
                IF m.watched_sockets[i].path = path
                THEN [m.watched_sockets[i] EXCEPT !.last_healthy = Some(healthy),
                                                  !.last_health_check = Some(checked),
                                                  !.key_count = key_count]
                ELSE m.watched_sockets[i]],
        !.last_health_check = Some(now)]

\* The paths the calls name.
MethodFiles == Files \cap DaemonPaths

\* The probe results update_socket_health is called with.
HealthReports == {[healthy |-> TRUE, key_count |-> Some(2)],
                  [healthy |-> FALSE, key_count |-> None]}

ValidateAndCleanupCall ==
    /\ socket_manager' = validate_and_cleanup(socket_manager, fs).mgr
    /\ UNCHANGED <<clock, fs, request, conn, probe, daemonVars, watcherVars, ctl>>

UpdateSocketHealthCall(p) ==
    \E report \in HealthReports :
    \E checked \in NowAfter(clock) :
    \E now \in NowAfter(checked) :
        /\ socket_manager' = update_socket_health(socket_manager, p, report.healthy,
                                                  report.key_count, checked, now)
        /\ clock' = now
        /\ UNCHANGED <<fs, request, conn, probe, daemonVars, watcherVars, ctl>>

InitMethods == InitRegistry

NextMethods ==
    \/ \E p \in MethodFiles : AddWatchedCall(p)
    \/ \E p \in MethodFiles : RemoveWatchedCall(p)
    \/ \E c \in ConfigChoices : UpdateConfiguredCall(c)
    \/ ValidateAndCleanupCall
    \/ \E p \in MethodFiles : UpdateSocketHealthCall(p)
    \/ FsStep

SpecMethods == InitMethods /\ [][NextMethods]_vars

\* An entry of watched that a health update has written to.
HasHealthMetadata(e) == e.last_healthy # None /\ e.last_health_check # None

\* C11: validate_and_cleanup removes from watched exactly the entries whose
\* path is not on disk, keeps every other entry as it is, metadata included,
\* returns the removed paths, each once, and leaves configured alone.
C11_ValidateAndCleanup ==
    LET m == socket_manager
        r == validate_and_cleanup(m, fs)
    IN  /\ Range(r.mgr.watched_sockets) = {e \in Range(m.watched_sockets) : e.path \in fs}
        /\ Len(r.mgr.watched_sockets) = Cardinality(WatchedPaths(m) \cap fs)
        /\ Range(r.removed) = WatchedPaths(m) \ fs
        /\ Len(r.removed) = Cardinality(WatchedPaths(m) \ fs)
        /\ r.mgr.configured_sockets = m.configured_sockets
        /\ r.mgr.last_health_check = m.last_health_check

\* C11: one watched entry with health metadata is on disk, another watched
\* path is not, and a configured path is not on disk either.
C11_Witness ==
    /\ \E e \in Range(socket_manager.watched_sockets) : e.path \in fs /\ HasHealthMetadata(e)
    /\ \E e \in Range(socket_manager.watched_sockets) : e.path \notin fs
    /\ \E q \in Range(socket_manager.configured_sockets) : q \notin fs

\* C12: add_watched(p) returns true and inserts p with created_at = now iff
\* p is not watched, configured or not; for a watched p it returns false and
\* leaves the registry, and so the ordered view, as it was.
C12_AddWatched ==
    \A p \in Files :
    \A now \in NowAfter(clock) :
    \A ws \in AddOrders(socket_manager, p, now) :
        LET m == socket_manager
            r == add_watched(m, p, now, ws)
        IN  /\ r.ret <=> ~is_watched(m, p)
            /\ r.ret =>
                 /\ Range(r.mgr.watched_sockets)
                        = Range(m.watched_sockets) \cup {NewWatchedSocket(p, now)}
                 /\ Len(r.mgr.watched_sockets) = Len(m.watched_sockets) + 1
                 /\ r.mgr.configured_sockets = m.configured_sockets
                 /\ r.mgr.last_health_check = m.last_health_check
            /\ ~r.ret =>
                 /\ r.mgr = m
                 /\ get_ordered_sockets(r.mgr) = get_ordered_sockets(m)

\* C12: a path is watched since an earlier reading of the clock, with health
\* metadata, and another, configured, path is not watched.
C12_Witness ==
    /\ \E e \in Range(socket_manager.watched_sockets) :
          e.created_at < clock /\ HasHealthMetadata(e)
    /\ \E q \in Range(socket_manager.configured_sockets) : ~is_watched(socket_manager, q)

\* C13: remove_watched(p) returns true iff p is watched; after it p is not
\* watched, every other entry is as it was and configured is unchanged.
C13_RemoveWatched ==
    \A p \in Files :
        LET m == socket_manager
            r == remove_watched(m, p)
        IN  /\ r.ret <=> is_watched(m, p)
            /\ ~is_watched(r.mgr, p)
            /\ Range(r.mgr.watched_sockets) = {e \in Range(m.watched_sockets) : e.path # p}
            /\ Len(r.mgr.watched_sockets) = Cardinality(WatchedPaths(m) \ {p})
            /\ r.mgr.configured_sockets = m.configured_sockets
            /\ r.mgr.last_health_check = m.last_health_check

\* C13: two paths are watched, one of them configured as well, and the
\* entries carry health metadata.
C13_Witness ==
    /\ Len(socket_manager.watched_sockets) = 2
    /\ \A e \in Range(socket_manager.watched_sockets) : HasHealthMetadata(e)
    /\ \E e \in Range(socket_manager.watched_sockets) : is_configured(socket_manager, e.path)

\* C14: update_configured(seq) makes configured exactly seq, duplicates and
\* order kept, and leaves watched, with created_at and health metadata, and
\* the registry's last_health_check as they were.
C14_UpdateConfigured ==
    \A seq \in ConfigChoices :
        LET m == socket_manager
            r == update_configured(m, seq)
        IN  /\ r.configured_sockets = seq
            /\ r.watched_sockets = m.watched_sockets
            /\ r.last_health_check = m.last_health_check

\* C14: configured lists a path twice after an update, and the watched
\* entries, one of them with health metadata, are still there.
C14_Witness ==
    /\ socket_manager.configured_sockets = <<HomeSocket, HomeSocket>>
    /\ Len(socket_manager.watched_sockets) = 2
    /\ \E e \in Range(socket_manager.watched_sockets) : HasHealthMetadata(e)

\* The SocketInfo records get_socket_info returns for the watched entries.
WatchedInfos == {i \in Range(get_socket_info(socket_manager, fs)) : i.source = "watched"}

\* The entry of watched a SocketInfo was made from.
EntryOf(info) == CHOOSE e \in Range(socket_manager.watched_sockets) : e.path = info.path

\* C28: the SocketInfo of a watched entry reports healthy = true iff the
\* path exists now and the most recent probe recorded for the entry
\* succeeded; with no probe recorded, healthy = the path exists.
C28_HealthyIffExistsAndProbed ==
    \A info \in WatchedInfos :
        LET e == EntryOf(info)
        IN  info.healthy <=> /\ info.path \in fs
                             /\ e.last_healthy \in {None, Some(TRUE)}

\* The calls of update_socket_health a state admits: the path, the probe
\* result and the two clock readings.
HealthUpdates ==
    {u \in [path : MethodFiles, report : HealthReports,
            checked : NowAfter(clock), now : NowAfter(clock)] : u.checked <= u.now}

\* The registry after the call u.
Updated(u) ==
    update_socket_health(socket_manager, u.path, u.report.healthy, u.report.key_count,
                         u.checked, u.now)

\* C29 as stated: update_socket_health stamps the entry when the path is
\* watched, and changes no field of the registry when it is not.
C29_NoOpWhenNotWatched ==
    \A u \in HealthUpdates :
        ~is_watched(socket_manager, u.path) => Updated(u) = socket_manager

\* C29: update_socket_health stamps last_healthy, last_health_check and
\* key_count on the entry when the path is watched, and leaves its path and
\* created_at, every other entry and configured as they were; watched or
\* not, it sets the registry's own last_health_check to now, so that for a
\* path that is not watched that field is the one thing that changes.
C29_UpdateSocketHealth ==
    \A u \in HealthUpdates :
        LET m == socket_manager
            r == Updated(u)
        IN  /\ r.configured_sockets = m.configured_sockets
            /\ r.last_health_check = Some(u.now)
            /\ Len(r.watched_sockets) = Len(m.watched_sockets)
            /\ \A i \in 1..Len(m.watched_sockets) :
                  LET old == m.watched_sockets[i]
                      new == r.watched_sockets[i]
                  IN  IF old.path = u.path
                      THEN /\ new.path = old.path
                           /\ new.created_at = old.created_at
                           /\ new.last_healthy = Some(u.report.healthy)
                           /\ new.last_health_check = Some(u.checked)
                           /\ new.key_count = u.report.key_count
                      ELSE new = old
            /\ ~is_watched(m, u.path) =>
                  r = [m EXCEPT !.last_health_check = Some(u.now)]

\* C29: one path is watched with the stamps of an earlier update, the other
\* path is not watched, and the registry carries the time of that update.
C29_Witness ==
    /\ Len(socket_manager.watched_sockets) = 1
    /\ \A e \in Range(socket_manager.watched_sockets) :
          /\ e.last_healthy = Some(TRUE)
          /\ e.key_count = Some(2)
          /\ e.last_health_check # None
    /\ socket_manager.last_health_check # None
    /\ MethodFiles \ WatchedPaths(socket_manager) # {}

\* C30: get_socket_info returns one SocketInfo per element of
\* get_ordered_sockets, in the same order, with order the 1-based position,
\* source watched for the first watched_count of them and configured for the
\* rest, and added_at present exactly for the watched ones.
C30_SocketInfoFollowsOrderedView ==
    LET m == socket_manager
        info == get_socket_info(m, fs)
        ordered == get_ordered_sockets(m)
    IN  /\ Len(info) = Len(ordered)
        /\ \A i \in 1..Len(info) :
              /\ info[i].path = ordered[i]
              /\ info[i].order = i
              /\ info[i].source = IF i <= watched_count(m) THEN "watched" ELSE "configured"
              /\ info[i].added_at # None <=> i <= watched_count(m)

\* C30: two paths are watched since the same clock reading and two are
\* configured, one of them watched as well, so that the list has four
\* entries.
C30_Witness ==
    /\ Len(socket_manager.watched_sockets) = 2
    /\ \A e \in Range(socket_manager.watched_sockets) : e.created_at = 1
    /\ socket_manager.configured_sockets = <<ForwardedAgent, HomeSocket>>
    /\ Len(get_socket_info(socket_manager, fs)) = 4

----------------------------------------------------------------------------
(* SpecForwarded: is_ssh_forwarded_agent asked about any path of up to      *)
(* MaxDepth components, absolute or relative.                               *)

MaxDepth == 4

AuthAgent1 == <<"a", "u", "t", "h", "-", "a", "g", "e", "n", "t", "1">>
ListenerSock == <<"l", "i", "s", "t", "e", "n", "e", "r", ".", "s", "o", "c", "k">>
Listener2Sock == <<"l", "i", "s", "t", "e", "n", "e", "r", "2", ".", "s", "o", "c", "k">>
UpperAgent1 == <<"A", "g", "e", "n", "t", ".", "1">>
VarName == <<"v", "a", "r">>

\* The names a component of the path asked about may have.
ProbeNames == {TmpName, VarName, SshA, AuthAgent1, Agent1, UpperAgent1,
               ListenerSock, Listener2Sock}

ProbePaths == UNION {[1..n -> ProbeNames] : n \in 1..MaxDepth}

InitForwarded ==
    /\ socket_manager = NewSocketManager(<<>>)
    /\ clock = 0
    /\ fs = {TmpPath}
    /\ request = NoRequest
    /\ config = [watch_for_ssh_forward |-> FALSE, health_check |-> FALSE]
    /\ pc = "scan"
    /\ startup_agents = {}
    /\ watcher_status = "Disabled"
    /\ os_watches = {}
    /\ watched_dirs = {}
    /\ os_events = <<>>
    /\ channel = <<>>
    /\ poll = PollOff
    /\ ctl = NoControl
    /\ conn = NoConnection
    /\ \E absolute \in BOOLEAN, components \in ProbePaths :
          probe = [state |-> "asked", absolute |-> absolute,
                   components |-> components, answer |-> None]

\* The call returns.
Classify ==
    /\ probe.state = "asked"
    /\ probe' = [probe EXCEPT !.state = "answered",
                              !.answer = Some(IsSshForwardedAgent(probe.absolute,
                                                                  probe.components))]
    /\ UNCHANGED <<regVars, fs, request, daemonVars, watcherVars, ctl, conn>>

NextForwarded == Classify

SpecForwarded == InitForwarded /\ [][NextForwarded]_vars

\* name is prefix followed by anything.
HasPrefix(name, prefix) ==
    /\ Len(name) >= Len(prefix)
    /\ \A i \in 1..Len(prefix) : name[i] = prefix[i]

----------------------------------------------------------------------------
(* SpecControl: one connection to the control socket of a running daemon.   *)
(* handle_connection reads lines and writes one response per request;       *)
(* The disk changes between the steps of Reload and of HealthCheck.  The    *)
(* daemon's other tasks are those of Spec and are left out here.            *)

MaxLines == 2

\* The path the client names in AddSocket and RemoveSocket.
ControlPaths == {HomeSocket}

\* ControlRequest, the variants the client sends here.
Requests ==
    {[type |-> t, path |-> None] :
        t \in {"Ping", "ListKeys", "Reload", "ValidateSockets", "HealthCheck"}}
    \cup {[type |-> t, path |-> Some(p)] :
        t \in {"AddSocket", "RemoveSocket"}, p \in ControlPaths}

\* serde_json::to_string of a request: the text of its JSON object.
to_string(r) == <<"{", r.type, r.path, "}">>

\* serde_json::from_str::<ControlRequest>(line.trim())
from_str(text) ==
    IF \E r \in Requests : to_string(r) = text
    THEN [ok |-> TRUE, request |-> CHOOSE r \in Requests : to_string(r) = text]
    ELSE [ok |-> FALSE]

\* The lines a client may write: a request, text that is no request, and
\* bytes that are not UTF-8.
RequestLine(r) == [utf8 |-> TRUE, text |-> to_string(r)]
TextLine == [utf8 |-> TRUE, text |-> <<"{">>]
BytesLine == [utf8 |-> FALSE, text |-> <<>>]
Lines == {RequestLine(r) : r \in Requests} \cup {TextLine, BytesLine}

\* AsyncBufReadExt::read_line into a String: an error unless the bytes are UTF-8.
read_line(line) == [ok |-> line.utf8]

Pong == [type |-> "Pong"]

\* ControlRequest::Ping
handle_Ping(m) == [mgr |-> m, response |-> Pong]

\* ControlRequest::ListKeys
handle_ListKeys(m) ==
    [mgr |-> m,
     response |-> Error("ListKeys not yet implemented - requires upstream agent queries")]

\* check_socket_health: Missing when the file is not there; else what the
\* connect and the protocol handshake with whatever listens there give.
check_socket_health(path, disk) ==
    IF path \notin disk
    THEN {[status |-> "Missing", key_count |-> None,
           error |-> Some("Socket file does not exist")]}
    ELSE {[status |-> "ConnectionFailed", key_count |-> None,
           error |-> Some("Connection failed")],
          [status |-> "ProtocolError", key_count |-> None,
           error |-> Some("Protocol error")],
          [status |-> "Healthy", key_count |-> None, error |-> None]}

\* A HealthCheck loop that counts every socket it could connect to as healthy.
push_result_Connected(h, path, check) ==
    [h EXCEPT !.results = Append(@, [path |-> path, status |-> check.status,
                                     key_count |-> check.key_count,
                                     error |-> check.error]),
              !.healthy_count =
                  IF check.status \in {"Healthy", "ProtocolError"} THEN @ + 1 ELSE @,
              !.unhealthy_count =
                  IF check.status \in {"Healthy", "ProtocolError"} THEN @ ELSE @ + 1]

\* One turn of the HealthCheck loop: the counters and results.push
push_result(h, path, check) ==
    [h EXCEPT !.results = Append(@, [path |-> path, status |-> check.status,
                                     key_count |-> check.key_count,
                                     error |-> check.error]),
              !.healthy_count = IF check.status = "Healthy" THEN @ + 1 ELSE @,
              !.unhealthy_count = IF check.status = "Healthy" THEN @ ELSE @ + 1]

\* ControlResponse::HealthCheck(HealthCheckResult)
HealthCheckResult(h, removed) ==
    [type |-> "HealthCheck", sockets |-> h.results,
     healthy_count |-> h.healthy_count, unhealthy_count |-> h.unhealthy_count,
     removed |-> removed]

InitControl ==
    /\ \E configured \in DaemonConfigs : socket_manager = NewSocketManager(configured)
    /\ clock = 0
    /\ fs \in StartDisks
    /\ request = NoRequest
    /\ config \in [watch_for_ssh_forward : BOOLEAN, health_check : {FALSE}]
    /\ pc = "running"
    /\ startup_agents = {}
    /\ watcher_status = IF config.watch_for_ssh_forward THEN "Active" ELSE "Disabled"
    /\ os_watches = {}
    /\ watched_dirs = {}
    /\ os_events = <<>>
    /\ channel = <<>>
    /\ poll = PollOff
    /\ ctl = NoControl
    /\ conn = NoConnection
    /\ probe = NoProbe

\* listener.accept() and the spawn of handle_connection
Accept ==
    /\ conn = NoConnection
    /\ conn' = [state |-> "open", received |-> <<>>, sent |-> <<>>]
    /\ UNCHANGED <<regVars, fs, request, probe, daemonVars, watcherVars, ctl>>

\* handle_connection is at read_line and the client has written a line.
Reading == conn.state = "open" /\ ctl = NoControl /\ Len(conn.received) < MaxLines

\* The line is read; its response is written later.
Take(line) == conn' = [conn EXCEPT !.received = Append(@, line)]

\* The line is read and its response written.
Reply(line, response) ==
    conn' = [conn EXCEPT !.received = Append(@, line), !.sent = Append(@, response)]

\* The response of the handler in flight is written.
Write(response) == conn' = [conn EXCEPT !.sent = Append(@, response)]

\* read_line returns Err: handle_connection returns it and the stream drops.
ReadFails ==
    /\ Reading
    /\ \E line \in Lines :
          /\ ~read_line(line).ok
          /\ conn' = [conn EXCEPT !.received = Append(@, line), !.state = "dropped"]
    /\ UNCHANGED <<regVars, fs, request, probe, daemonVars, watcherVars, ctl>>

\* The line does not parse: the Error response, and the loop continues.
InvalidRequest ==
    /\ Reading
    /\ \E line \in Lines :
          /\ read_line(line).ok
          /\ ~from_str(line.text).ok
          /\ Reply(line, Error("Invalid request"))
    /\ UNCHANGED <<regVars, fs, request, probe, daemonVars, watcherVars, ctl>>

\* handle_connection has read and parsed the request req.
Parsed(line, req) ==
    /\ Reading
    /\ read_line(line).ok
    /\ from_str(line.text).ok
    /\ from_str(line.text).request = req

ServePing ==
    /\ \E line \in Lines :
          /\ Parsed(line, [type |-> "Ping", path |-> None])
          /\ Reply(line, handle_Ping(socket_manager).response)
    /\ UNCHANGED <<regVars, fs, request, probe, daemonVars, watcherVars, ctl>>

ServeListKeys ==
    /\ \E line \in Lines :
          /\ Parsed(line, [type |-> "ListKeys", path |-> None])
          /\ Reply(line, handle_ListKeys(socket_manager).response)
    /\ UNCHANGED <<regVars, fs, request, probe, daemonVars, watcherVars, ctl>>

ServeAddSocket ==
    /\ \E line \in Lines, path \in ControlPaths :
          /\ Parsed(line, [type |-> "AddSocket", path |-> Some(path)])
          /\ \E now \in NowAfter(clock) :
             \E ws \in AddOrders(socket_manager, path, now) :
                LET r == handle_AddSocket(socket_manager, path, fs, now, ws) IN
                /\ socket_manager' = r.mgr
                /\ clock' = IF r.response.type = "Success" THEN now ELSE clock
                /\ Reply(line, r.response)
    /\ UNCHANGED <<fs, request, probe, daemonVars, watcherVars, ctl>>

ServeRemoveSocket ==
    /\ \E line \in Lines, path \in ControlPaths :
          /\ Parsed(line, [type |-> "RemoveSocket", path |-> Some(path)])
          /\ LET r == handle_RemoveSocket(socket_manager, path) IN
             /\ socket_manager' = r.mgr
             /\ Reply(line, r.response)
    /\ UNCHANGED <<clock, fs, request, probe, daemonVars, watcherVars, ctl>>

ServeValidateSockets ==
    /\ \E line \in Lines :
          /\ Parsed(line, [type |-> "ValidateSockets", path |-> None])
          /\ LET r == handle_ValidateSockets(socket_manager, fs) IN
             /\ socket_manager' = r.mgr
             /\ Reply(line, r.response)
    /\ UNCHANGED <<clock, fs, request, probe, daemonVars, watcherVars, ctl>>

\* Reload up to the lock: refused, or the scan; the handler waits for the
\* lock when the scan returned Ok.
ServeReload ==
    /\ \E line \in Lines :
          /\ Parsed(line, [type |-> "Reload", path |-> None])
          /\ \E scan \in scan_existing_agents(fs) :
                LET start == handle_Reload_start(watch_enabled(config), scan) IN
                IF start.response = None
                THEN /\ Take(line)
                     /\ ctl' = [op |-> "Reload", agents |-> start.agents]
                ELSE /\ Reply(line, start.response[1])
                     /\ UNCHANGED ctl
    /\ UNCHANGED <<regVars, fs, request, probe, daemonVars, watcherVars>>

\* Reload under the lock: the scanned agents added, the registry cleaned,
\* the response written.
ReloadLocked ==
    /\ conn.state = "open"
    /\ ctl.op = "Reload"
    /\ \E r \in handle_Reload(socket_manager, clock, ctl.agents, fs) :
          /\ socket_manager' = r.mgr
          /\ clock' = r.clock
          /\ Write(r.response)
    /\ ctl' = NoControl
    /\ UNCHANGED <<fs, request, probe, daemonVars, watcherVars>>

\* HealthCheck: the ordered snapshot under the lock, and the lock dropped.
ServeHealthCheck ==
    /\ \E line \in Lines :
          /\ Parsed(line, [type |-> "HealthCheck", path |-> None])
          /\ Take(line)
    /\ ctl' = [op |-> "HealthCheck", sockets |-> get_ordered_sockets(socket_manager),
               results |-> <<>>, healthy_count |-> 0, unhealthy_count |-> 0]
    /\ UNCHANGED <<regVars, fs, request, probe, daemonVars, watcherVars>>

\* HealthCheck: the next socket of the snapshot is probed.
ProbeSocket ==
    /\ conn.state = "open"
    /\ ctl.op = "HealthCheck"
    /\ Len(ctl.results) < Len(ctl.sockets)
    /\ LET socket_path == ctl.sockets[Len(ctl.results) + 1] IN
       \E check \in check_socket_health(socket_path, fs) :
          ctl' = push_result(ctl, socket_path, check)
    /\ UNCHANGED <<regVars, fs, request, conn, probe, daemonVars, watcherVars>>

\* HealthCheck, every socket probed: validate_and_cleanup under the lock and
\* the response.
HealthCheckLocked ==
    /\ conn.state = "open"
    /\ ctl.op = "HealthCheck"
    /\ Len(ctl.results) = Len(ctl.sockets)
    /\ LET r == validate_and_cleanup(socket_manager, fs) IN
       /\ socket_manager' = r.mgr
       /\ Write(HealthCheckResult(ctl, r.removed))
    /\ ctl' = NoControl
    /\ UNCHANGED <<clock, fs, request, probe, daemonVars, watcherVars>>

\* The client closes; read_line returns 0 and handle_connection returns Ok.
ClientCloses ==
    /\ conn.state = "open"
    /\ ctl = NoControl
    /\ conn' = [conn EXCEPT !.state = "closed"]
    /\ UNCHANGED <<regVars, fs, request, probe, daemonVars, watcherVars, ctl>>

NextControl ==
    \/ Accept
    \/ ReadFails
    \/ InvalidRequest
    \/ ServePing
    \/ ServeListKeys
    \/ ServeAddSocket
    \/ ServeRemoveSocket
    \/ ServeValidateSockets
    \/ ServeReload
    \/ ReloadLocked
    \/ ServeHealthCheck
    \/ ProbeSocket
    \/ HealthCheckLocked
    \/ ClientCloses
    \/ FsStep

SpecControl == InitControl /\ [][NextControl]_vars

----------------------------------------------------------------------------
(* The control connection's claims.                                         *)

ReloadLine == RequestLine([type |-> "Reload", path |-> None])
HealthCheckLine == RequestLine([type |-> "HealthCheck", path |-> None])
ListKeysLine == RequestLine([type |-> "ListKeys", path |-> None])

Last(s) == s[Len(s)]

\* In this step handle_connection reads the line.
Reads(line) ==
    /\ conn.state = "open"
    /\ Len(conn'.received) = Len(conn.received) + 1
    /\ Last(conn'.received) = line

\* In this step the response to the last line read is written.
Writes(response) ==
    /\ Len(conn'.sent) = Len(conn.sent) + 1
    /\ Len(conn'.sent) = Len(conn'.received)
    /\ Last(conn'.sent) = response

\* C15: with watching disabled, the step that reads a Reload request writes
\* the Error "SSH forwarding watch is not enabled", leaves the registry as it
\* was and starts no scan; no Reload is ever waiting to add or clean up.
C15_ReloadRefused ==
    [][~watch_enabled(config) =>
          /\ ctl'.op # "Reload"
          /\ Reads(ReloadLine) =>
                /\ Writes(Error("SSH forwarding watch is not enabled"))
                /\ ctl' = NoControl
                /\ UNCHANGED regVars]_vars

\* C15: watching is disabled and Reload was refused, while a watched entry
\* is missing from the disk and a forwarded agent on disk is not watched.
C15_Witness ==
    /\ ~watch_enabled(config)
    /\ conn.state = "open"
    /\ conn.received # <<>>
    /\ Last(conn.received) = ReloadLine
    /\ Len(conn.sent) = Len(conn.received)
    /\ Last(conn.sent).type = "Error"
    /\ is_watched(socket_manager, HomeSocket)
    /\ HomeSocket \notin fs
    /\ ForwardedAgent \in fs
    /\ ~is_watched(socket_manager, ForwardedAgent)

\* C16: the step in which Reload takes the lock leaves watched exactly the
\* paths that were watched or scanned and are on disk, the entries already
\* there as they were and configured untouched, and writes Success with the
\* number of scanned paths that were not watched and the number of paths
\* removed; a Reload answered at once, watching enabled, is the failed
\* scan's Error and leaves the registry as it was.
C16_Reload ==
    [][/\ ctl.op = "Reload" /\ ctl'.op # "Reload" =>
            LET before == WatchedPaths(socket_manager)
                scanned == Range(ctl.agents)
            IN  /\ WatchedPaths(socket_manager') = (before \cup scanned) \cap fs
                /\ \A e \in Range(socket_manager.watched_sockets) :
                      e.path \in fs => e \in Range(socket_manager'.watched_sockets)
                /\ socket_manager'.configured_sockets = socket_manager.configured_sockets
                /\ Writes(Success(<<"Reload complete",
                                    Cardinality(scanned \ before),
                                    Cardinality((before \cup scanned) \ fs)>>))
       /\ watch_enabled(config) /\ Reads(ReloadLine) /\ ctl'.op # "Reload" =>
            /\ Writes(Error("Failed to scan for agents"))
            /\ UNCHANGED regVars]_vars

\* C16: a Reload that added one agent and removed one stale entry was answered.
C16_Witness ==
    /\ conn.state = "open"
    /\ ctl = NoControl
    /\ conn.sent # <<>>
    /\ Last(conn.received) = ReloadLine
    /\ Last(conn.sent) = Success(<<"Reload complete", 1, 1>>)

\* The healthy among results.
HealthyIn(results) == {i \in 1..Len(results) : results[i].status = "Healthy"}

\* C17: HealthCheck starts from get_ordered_sockets of the registry as it is
\* when the request is read; every probe adds the result of the next path
\* of that snapshot; the response lists one result per path of the
\* snapshot in its order, healthy_count is the number of results with
\* status Healthy, healthy_count + unhealthy_count the number of results,
\* and removed is what validate_and_cleanup, run in that step, removed.
C17_HealthCheck ==
    [][/\ Reads(HealthCheckLine) =>
            /\ ctl'.op = "HealthCheck"
            /\ ctl'.sockets = get_ordered_sockets(socket_manager)
            /\ ctl'.results = <<>>
       /\ ctl.op = "HealthCheck" /\ ctl'.op = "HealthCheck" =>
            /\ ctl'.sockets = ctl.sockets
            /\ \/ ctl'.results = ctl.results
               \/ /\ Len(ctl'.results) = Len(ctl.results) + 1
                  /\ SubSeq(ctl'.results, 1, Len(ctl.results)) = ctl.results
                  /\ Last(ctl'.results).path = ctl.sockets[Len(ctl'.results)]
       /\ ctl.op = "HealthCheck" /\ ctl'.op # "HealthCheck" =>
            LET r == Last(conn'.sent)
                cleanup == validate_and_cleanup(socket_manager, fs)
            IN  /\ Len(conn'.sent) = Len(conn'.received)
                /\ r.type = "HealthCheck"
                /\ [i \in 1..Len(r.sockets) |-> r.sockets[i].path] = ctl.sockets
                /\ r.healthy_count = Cardinality(HealthyIn(r.sockets))
                /\ r.healthy_count + r.unhealthy_count = Len(r.sockets)
                /\ r.removed = cleanup.removed
                /\ socket_manager' = cleanup.mgr]_vars

\* C17: a HealthCheck of two sockets or more, one healthy and one not, that
\* removed a path, was answered.
C17_Witness ==
    /\ conn.state = "open"
    /\ ctl = NoControl
    /\ conn.sent # <<>>
    /\ Last(conn.received) = HealthCheckLine
    /\ Last(conn.sent).type = "HealthCheck"
    /\ Len(Last(conn.sent).sockets) >= 2
    /\ Last(conn.sent).healthy_count >= 1
    /\ Last(conn.sent).unhealthy_count >= 1
    /\ Last(conn.sent).removed # <<>>

\* C18: every ListKeys request that was answered was answered with a Keys
\* response.
C18_ListKeysAnswersKeys ==
    conn.state # "none" =>
        \A i \in 1..Len(conn.sent) :
            conn.received[i] = ListKeysLine => conn.sent[i].type = "Keys"

\* The line is the JSON of a request.
IsRequestJson(line) == line.utf8 /\ from_str(line.text).ok

\* C19: whenever no handler is running, every line read on the connection
\* has its response, a line that is not the JSON of a request has an Error
\* response, and the server has not ended the connection.
C19_OneResponsePerLine ==
    conn.state # "none" /\ ctl = NoControl =>
        /\ conn.state # "dropped"
        /\ Len(conn.sent) = Len(conn.received)
        /\ \A i \in 1..Len(conn.sent) :
              ~IsRequestJson(conn.received[i]) => conn.sent[i].type = "Error"

----------------------------------------------------------------------------
(* SpecControlPath: control/client.rs default_control_path asked about any  *)
(* listen path of up to MaxPathLen bytes.  A path is a sequence of bytes, a *)
(* String a sequence of chars; the two conversions between them are         *)
(* Path::to_string_lossy and PathBuf::from.                                 *)

MaxPathLen == 6

\* Nothing runs around the function that is asked: no daemon, no connection.
NothingRuns ==
    /\ socket_manager = NewSocketManager(<<>>)
    /\ clock = 0
    /\ fs = {TmpPath}
    /\ request = NoRequest
    /\ config = [watch_for_ssh_forward |-> FALSE, health_check |-> FALSE]
    /\ pc = "scan"
    /\ startup_agents = {}
    /\ watcher_status = "Disabled"
    /\ os_watches = {}
    /\ watched_dirs = {}
    /\ os_events = <<>>
    /\ channel = <<>>
    /\ poll = PollOff
    /\ ctl = NoControl
    /\ conn = NoConnection

\* The bytes of a listen path: ASCII ones, and 0xFF, which no UTF-8 text holds.
AsciiBytes == {".", "s", "o", "c", "k", "x"}
PathBytes == AsciiBytes \cup {"0xFF"}

ListenPaths == UNION {[1..n -> PathBytes] : n \in 1..MaxPathLen}

\* Path::to_string_lossy: the text of the path, U+FFFD for a byte that is
\* not UTF-8.
to_string_lossy(path) ==
    [i \in 1..Len(path) |-> IF path[i] \in AsciiBytes THEN path[i] ELSE "U+FFFD"]

\* The UTF-8 bytes of one char.
Utf8(ch) == IF ch = "U+FFFD" THEN <<"0xEF", "0xBF", "0xBD">> ELSE <<ch>>

\* PathBuf::from(String): the UTF-8 bytes of the text.
RECURSIVE PathBufFrom(_)
PathBufFrom(str) ==
    IF str = <<>> THEN <<>> ELSE Utf8(Head(str)) \o PathBufFrom(Tail(str))

DotSock == <<".", "s", "o", "c", "k">>
DotCtl == <<".", "c", "t", "l">>

\* str::ends_with
ends_with(str, suffix) ==
    /\ Len(str) >= Len(suffix)
    /\ SubSeq(str, Len(str) - Len(suffix) + 1, Len(str)) = suffix

\* default_control_path
default_control_path(listen_path) ==
    LET listen_str == to_string_lossy(listen_path) IN
    IF ends_with(listen_str, DotSock)
    THEN PathBufFrom(SubSeq(listen_str, 1, Len(listen_str) - 5) \o DotCtl)
    ELSE PathBufFrom(listen_str \o DotCtl)

InitControlPath ==
    /\ NothingRuns
    /\ \E listen \in ListenPaths :
          probe = [state |-> "asked", listen |-> listen, answer |-> None]

\* The call returns.
DeriveControlPath ==
    /\ probe.state = "asked"
    /\ probe' = [probe EXCEPT !.state = "answered",
                              !.answer = Some(default_control_path(probe.listen))]
    /\ UNCHANGED <<regVars, fs, request, daemonVars, watcherVars, ctl, conn>>

NextControlPath == DeriveControlPath

SpecControlPath == InitControlPath /\ [][NextControlPath]_vars

\* C21: default_control_path(listen) is listen with its trailing ".sock"
\* replaced by ".ctl" when listen ends in ".sock", and listen followed by
\* ".ctl" in every other case.
C21_DefaultControlPath ==
    probe.state = "answered" =>
        LET listen == probe.listen
            n == Len(listen)
        IN  probe.answer = Some(
                IF n >= 5 /\ SubSeq(listen, n - 4, n) = DotSock
                THEN SubSeq(listen, 1, n - 5) \o DotCtl
                ELSE listen \o DotCtl)

----------------------------------------------------------------------------
(* SpecPolling: the polling fallback alone.  The watcher could not be       *)
(* created, so nothing is subscribed; run_polling_loop scans /tmp at every  *)
(* tick while both agents and their directories come and go, and the event  *)
(* handler applies what the loop sends.                                     *)

\* The paths under /tmp.
TmpPaths == Paths \ {TmpPath, HomeSocket}

InitPolling ==
    /\ socket_manager = NewSocketManager(<<>>)
    /\ clock = 0
    /\ fs \in {disk \in SUBSET (TmpPaths \cup {TmpPath}) :
                  /\ TmpPath \in disk
                  /\ \A p \in disk \ {TmpPath} : Parent(p) \in disk}
    /\ request = NoRequest
    /\ config = [watch_for_ssh_forward |-> TRUE, health_check |-> FALSE]
    /\ pc = "running"
    /\ startup_agents = {}
    /\ watcher_status = "PollingFallback"
    /\ os_watches = {}
    /\ watched_dirs = {}
    /\ os_events = <<>>
    /\ channel = <<>>
    /\ poll = [pc |-> "initial_scan", known_agents |-> {}]
    /\ ctl = NoControl
    /\ conn = NoConnection
    /\ probe = NoProbe

\* Something outside the daemon creates or removes a directory of /tmp or a
\* socket in it; nobody is notified.
TmpChanges ==
    /\ \E p \in TmpPaths :
          \/ /\ p \notin fs
             /\ Parent(p) \in fs
             /\ fs' = fs \cup {p}
          \/ /\ p \in fs
             /\ \A q \in fs \ {TmpPath} : Parent(q) # p
             /\ fs' = fs \ {p}
    /\ UNCHANGED <<regVars, request, conn, probe, daemonVars, watcherVars, ctl>>

NextPolling ==
    \/ PollInitialScan
    \/ PollTick
    \/ EventHandler
    \/ TmpChanges

SpecPolling == InitPolling /\ [][NextPolling]_vars

\* How many times event is among events.
Occurrences(events, event) == Cardinality({i \in 1..Len(events) : events[i] = event})

\* C22: a polling tick either sends nothing and remembers what it did (the
\* scan failed, or found what was remembered), or sends one Added for every
\* agent of the scan that was not remembered, one Removed for every
\* remembered agent the scan lacks, nothing else, and remembers the scan.
C22_PollTick ==
    [][PollTick =>
          LET sent == SubSeq(channel', Len(channel) + 1, Len(channel'))
              current == AgentsOnDisk(fs)
              known == poll.known_agents
          IN  /\ SubSeq(channel', 1, Len(channel)) = channel
              /\ \/ sent = <<>> /\ poll' = poll
                 \/ /\ poll'.known_agents = current
                    /\ \A p \in Files :
                          /\ Occurrences(sent, Added(p)) =
                                IF p \in current \ known THEN 1 ELSE 0
                          /\ Occurrences(sent, Removed(p)) =
                                IF p \in known \ current THEN 1 ELSE 0
                    /\ Len(sent) = Cardinality(current \ known)
                                   + Cardinality(known \ current)]_vars

\* C22: one tick has sent Added for the agent that came and Removed for the
\* agent that went, and the agent that came is remembered.
C22_Witness ==
    /\ poll.pc = "ticking"
    /\ channel = <<Added("/tmp/ssh-a/agent.1"), Removed("/tmp/ssh-b/agent.2")>>
    /\ poll.known_agents = {"/tmp/ssh-a/agent.1"}
    /\ AgentsOnDisk(fs) = {"/tmp/ssh-a/agent.1"}

----------------------------------------------------------------------------
(* SpecHealthInterval: run_daemon's choice of the health loop's interval,   *)
(* for any answer of systemd::watchdog_enabled() and any configured         *)
(* health_check_interval.                                                   *)

MaxUsec == 9
MaxSecs == 5

\* Duration::from_micros and Duration::from_secs
from_micros(n) == [micros |-> n]
from_secs(n) == [micros |-> n * 1000000]

\* A daemon that lets the configured interval win over the watchdog's.
health_interval_ConfiguredFirst(watchdog, health_check_interval) ==
    IF health_check_interval > 0
    THEN Some(from_secs(health_check_interval))
    ELSE IF watchdog # None
    THEN Some(from_micros(watchdog[1] \div 2))
    ELSE None

\* let health_interval = ...: watchdog is what systemd::watchdog_enabled()
\* returned.
health_interval(watchdog, health_check_interval) ==
    IF watchdog # None
    THEN Some(from_micros(watchdog[1] \div 2))
    ELSE IF health_check_interval > 0
    THEN Some(from_secs(health_check_interval))
    ELSE None

InitHealthInterval ==
    /\ NothingRuns
    /\ \E watchdog \in {None} \cup {Some(usec) : usec \in 0..MaxUsec},
          health_check_interval \in 0..MaxSecs :
          probe = [state |-> "asked", watchdog |-> watchdog,
                   health_check_interval |-> health_check_interval,
                   answer |-> None]

\* The interval is chosen.
ChooseHealthInterval ==
    /\ probe.state = "asked"
    /\ probe' = [probe EXCEPT !.state = "chosen",
                              !.answer = Some(health_interval(probe.watchdog,
                                                              probe.health_check_interval))]
    /\ UNCHANGED <<regVars, fs, request, daemonVars, watcherVars, ctl, conn>>

NextHealthInterval == ChooseHealthInterval

SpecHealthInterval == InitHealthInterval /\ [][NextHealthInterval]_vars

----------------------------------------------------------------------------
(* SpecHealthLoop: the health check task step by step.  probe holds the     *)
(* task's position, who holds the registry's mutex, and three counters:     *)
(* the ticks that fired, the validate_and_cleanup calls that returned and   *)
(* the watchdog pings sent.  Another task may hold the mutex for a while    *)
(* and the disk changes meanwhile.                                          *)

MaxTicks == 2

InitHealthLoop ==
    /\ socket_manager = NewSocketManager(<<>>)
    /\ clock = 0
    /\ fs \in StartDisks
    /\ request = NoRequest
    /\ config = [watch_for_ssh_forward |-> TRUE, health_check |-> TRUE]
    /\ pc = "running"
    /\ startup_agents = {}
    /\ watcher_status = "Active"
    /\ os_watches = {}
    /\ watched_dirs = {}
    /\ os_events = <<>>
    /\ channel = <<>>
    /\ poll = PollOff
    /\ ctl = NoControl
    /\ conn = NoConnection
    /\ probe = [pc |-> "sleeping", lock |-> "free",
                ticks |-> 0, cleanups |-> 0, pings |-> 0]

\* ticker.tick() returns; the task asks for the mutex.
HealthTickFires ==
    /\ probe.pc = "sleeping"
    /\ probe.ticks < MaxTicks
    /\ probe' = [probe EXCEPT !.pc = "locking", !.ticks = @ + 1]
    /\ UNCHANGED <<regVars, fs, request, daemonVars, watcherVars, ctl, conn>>

\* manager.lock().await returns and validate_and_cleanup runs under the guard.
HealthCleanup ==
    /\ probe.pc = "locking"
    /\ probe.lock = "free"
    /\ socket_manager' = validate_and_cleanup(socket_manager, fs).mgr
    /\ probe' = [probe EXCEPT !.pc = "holding", !.lock = "health", !.cleanups = @ + 1]
    /\ UNCHANGED <<clock, fs, request, daemonVars, watcherVars, ctl, conn>>

\* drop(mgr)
HealthUnlock ==
    /\ probe.pc = "holding"
    /\ probe' = [probe EXCEPT !.pc = "released", !.lock = "free"]
    /\ UNCHANGED <<regVars, fs, request, daemonVars, watcherVars, ctl, conn>>

\* A health task that pings as soon as the tick fires.
WatchdogPing_AtTick ==
    /\ probe.pc = "locking"
    /\ probe.pings < probe.ticks
    /\ probe' = [probe EXCEPT !.pings = @ + 1]
    /\ UNCHANGED <<regVars, fs, request, daemonVars, watcherVars, ctl, conn>>

\* systemd::notify_watchdog(), and back to ticker.tick().await
WatchdogPing ==
    /\ probe.pc = "released"
    /\ probe' = [probe EXCEPT !.pc = "sleeping", !.pings = @ + 1]
    /\ UNCHANGED <<regVars, fs, request, daemonVars, watcherVars, ctl, conn>>

\* Another task takes the registry's mutex.
OtherTaskLocks ==
    /\ probe.lock = "free"
    /\ probe' = [probe EXCEPT !.lock = "other"]
    /\ UNCHANGED <<regVars, fs, request, daemonVars, watcherVars, ctl, conn>>

\* The task that holds the mutex adds the forwarded agent, as the event
\* handler does.
OtherTaskAdds ==
    /\ probe.lock = "other"
    /\ \E now \in NowAfter(clock) :
       \E ws \in AddOrders(socket_manager, ForwardedAgent, now) :
          /\ socket_manager' = add_watched(socket_manager, ForwardedAgent, now, ws).mgr
          /\ clock' = now
    /\ UNCHANGED <<fs, request, probe, daemonVars, watcherVars, ctl, conn>>

\* The other task drops its guard.
OtherTaskUnlocks ==
    /\ probe.lock = "other"
    /\ probe' = [probe EXCEPT !.lock = "free"]
    /\ UNCHANGED <<regVars, fs, request, daemonVars, watcherVars, ctl, conn>>

NextHealthLoop ==
    \/ HealthTickFires
    \/ HealthCleanup
    \/ HealthUnlock
    \/ WatchdogPing
    \/ OtherTaskLocks
    \/ OtherTaskAdds
    \/ OtherTaskUnlocks
    \/ FsStep

SpecHealthLoop == InitHealthLoop /\ [][NextHealthLoop]_vars

\* C24: a ping is sent only by a task that has run this tick's
\* validate_and_cleanup and dropped the guard; while a tick waits for the
\* mutex it has no ping; and the pings are as many as the ticks that
\* completed: one behind the cleanups between the cleanup and the ping,
\* equal to them otherwise.
C24_PingAfterCleanup ==
    /\ [](/\ probe.pc = "sleeping" =>
                probe.pings = probe.ticks /\ probe.cleanups = probe.ticks
          /\ probe.pc = "locking" =>
                probe.pings = probe.ticks - 1 /\ probe.cleanups = probe.ticks - 1
          /\ probe.pc \in {"holding", "released"} =>
                probe.pings = probe.ticks - 1 /\ probe.cleanups = probe.ticks
          /\ probe.lock = "health" <=> probe.pc = "holding")
    /\ [][probe'.pings # probe.pings =>
             /\ probe'.pings = probe.pings + 1
             /\ probe.cleanups = probe.ticks
             /\ probe.lock # "health"
             /\ probe.pc = "released"]_vars

\* C24: the second tick waits for the mutex another task holds; the first
\* tick ran its cleanup and its ping is the only one sent.
C24_Witness ==
    /\ probe.pc = "locking"
    /\ probe.lock = "other"
    /\ probe.ticks = 2
    /\ probe.cleanups = 1
    /\ probe.pings = 1

----------------------------------------------------------------------------
(* SpecLifecycle: run_daemon from the first Config::parse to its return,    *)
(* watching disabled.  probe holds what is at the control socket's path,    *)
(* whether the SelfDeletingControlSocket guard lives, the last signal the   *)
(* main loop handled and how many it handled, and how run_daemon returned.  *)

MaxSignals == 2

\* What may lie at the control path when the daemon starts.
ControlFilesAtStart == {"absent", "stale", "directory"}

Signals == {"SIGHUP", "SIGINT", "SIGTERM"}

InitLifecycle ==
    /\ socket_manager = NewSocketManager(<<>>)
    /\ clock = 0
    /\ fs \in StartDisks
    /\ request = NoRequest
    /\ config = [watch_for_ssh_forward |-> FALSE, health_check |-> FALSE]
    /\ pc = "parse"
    /\ startup_agents = {}
    /\ watcher_status = "Disabled"
    /\ os_watches = {}
    /\ watched_dirs = {}
    /\ os_events = <<>>
    /\ channel = <<>>
    /\ poll = PollOff
    /\ ctl = NoControl
    /\ conn = NoConnection
    /\ \E file \in ControlFilesAtStart :
          probe = [control_file |-> file, guard |-> FALSE, signal |-> None,
                   handled |-> 0, exit |-> None]

\* Config::parse(): Ok with the upstreams of the file, or the error of a
\* file that cannot be read or is not the TOML of a configuration.
ConfigParse == {[ok |-> TRUE, agent_sock_paths |-> c] : c \in DaemonConfigs}
                   \cup {[ok |-> FALSE, agent_sock_paths |-> <<>>]}

\* A run_daemon whose return leaves the control socket where it is.
Return_NoGuard(pr, code, cause) ==
    [pr EXCEPT !.exit = Some([code |-> code, cause |-> cause]), !.guard = FALSE]

\* run_daemon returns: its guards are dropped, and a live
\* SelfDeletingControlSocket removes the file at the control path.
Return(pr, code, cause) ==
    [pr EXCEPT !.exit = Some([code |-> code, cause |-> cause]),
               !.guard = FALSE,
               !.control_file = IF pr.guard /\ @ # "directory" THEN "absent" ELSE @]

\* let mut config = cli::Config::parse()?; and SocketManager::new
ParseAtStartup ==
    /\ pc = "parse"
    /\ \E parsed \in ConfigParse :
          IF parsed.ok
          THEN /\ socket_manager' = NewSocketManager(parsed.agent_sock_paths)
               /\ pc' = "bind"
               /\ UNCHANGED probe
          ELSE /\ pc' = "exited"
               /\ probe' = Return(probe, "FAILURE", "ConfigError")
               /\ UNCHANGED socket_manager
    /\ UNCHANGED <<clock, fs, request, config, startup_agents, watcher_status,
                   watcherVars, ctl, conn>>

\* ControlServer::bind: remove_file of what exists at the path, which fails
\* on a directory, then UnixListener::bind.
bind(control_file) ==
    IF control_file = "directory"
    THEN [ok |-> FALSE, control_file |-> control_file]
    ELSE [ok |-> TRUE, control_file |-> "socket"]

\* ControlServer::bind(...).await?, the guard, and the server's task spawned.
BindControl ==
    /\ pc = "bind"
    /\ LET bound == bind(probe.control_file) IN
       IF bound.ok
       THEN /\ pc' = "running"
            /\ probe' = [probe EXCEPT !.control_file = bound.control_file,
                                      !.guard = TRUE]
       ELSE /\ pc' = "exited"
            /\ probe' = Return(probe, "FAILURE", "BindError")
    /\ UNCHANGED <<regVars, fs, request, config, startup_agents, watcher_status,
                   watcherVars, ctl, conn>>

\* The main loop can take a signal.
InMainLoop == pc = "running" /\ probe.handled < MaxSignals

\* SIGHUP, and the configuration parses: update_configured.
SighupParsed ==
    /\ InMainLoop
    /\ \E parsed \in ConfigParse :
          /\ parsed.ok
          /\ socket_manager' = update_configured(socket_manager, parsed.agent_sock_paths)
    /\ probe' = [probe EXCEPT !.signal = Some("SIGHUP"), !.handled = @ + 1]
    /\ UNCHANGED <<clock, fs, request, daemonVars, watcherVars, ctl, conn>>

\* SIGHUP, and Config::parse()? returns the error out of run_daemon.
SighupParseFails ==
    /\ InMainLoop
    /\ \E parsed \in ConfigParse : ~parsed.ok
    /\ pc' = "exited"
    /\ probe' = Return([probe EXCEPT !.signal = Some("SIGHUP"), !.handled = @ + 1],
                       "FAILURE", "ConfigError")
    /\ UNCHANGED <<regVars, fs, request, config, startup_agents, watcher_status,
                   watcherVars, ctl, conn>>

\* SIGINT or SIGTERM: break, and run_daemon returns Ok(()).
Interrupt ==
    /\ InMainLoop
    /\ \E sig \in {"SIGINT", "SIGTERM"} :
          probe' = Return([probe EXCEPT !.signal = Some(sig), !.handled = @ + 1],
                          "SUCCESS", "Signal")
    /\ pc' = "exited"
    /\ UNCHANGED <<regVars, fs, request, config, startup_agents, watcher_status,
                   watcherVars, ctl, conn>>

\* A control client's AddSocket, while the daemon runs.
ClientAddsSocket ==
    /\ pc = "running"
    /\ \E path \in Files \cap DaemonPaths : AddSocketRequest(path)

NextLifecycle ==
    \/ ParseAtStartup
    \/ BindControl
    \/ SighupParsed
    \/ SighupParseFails
    \/ Interrupt
    \/ ClientAddsSocket
    \/ FsStep

SpecLifecycle == InitLifecycle /\ [][NextLifecycle]_vars

\* The main loop handles the signal sig in this step.
Handles(sig) ==
    /\ probe'.handled = probe.handled + 1
    /\ probe'.signal = Some(sig)

\* C25: the step that handles SIGHUP leaves the daemon running, configured
\* one of the lists the configuration can hold and watched as it was; the
\* steps that end the main loop handle SIGINT or SIGTERM.
C25_SighupKeepsRunning ==
    [][/\ Handles("SIGHUP") =>
            /\ pc' = "running"
            /\ socket_manager'.configured_sockets \in DaemonConfigs
            /\ socket_manager'.watched_sockets = socket_manager.watched_sockets
       /\ pc = "running" /\ pc' # "running" =>
            Handles("SIGINT") \/ Handles("SIGTERM")]_vars

\* C26: run_daemon returns a configuration error only from its first parse:
\* never after the main loop has handled a signal.
C26_ConfigErrorFatalAtStartupOnly ==
    (probe.exit # None /\ probe.exit[1].cause = "ConfigError") => probe.signal = None

\* C27: ControlServer::bind, when it succeeds, leaves this daemon's socket
\* at the control path whether or not a stale file was there; the step
\* that handles SIGINT or SIGTERM ends run_daemon and leaves nothing at the
\* control path.
C27_ControlSocketRemoved ==
    [][/\ pc = "bind" /\ pc' = "running" =>
            /\ probe.control_file \in {"absent", "stale"}
            /\ probe'.control_file = "socket"
       /\ Handles("SIGINT") \/ Handles("SIGTERM") =>
            /\ pc' = "exited"
            /\ probe'.control_file = "absent"]_vars

\* C27: a daemon that found a stale file at its control path has been ended
\* by SIGTERM, and nothing lies at the control path.
C27_Witness ==
    /\ pc = "exited"
    /\ probe.signal = Some("SIGTERM")
    /\ probe.exit = Some([code |-> "SUCCESS", cause |-> "Signal"])
    /\ probe.control_file = "absent"
    /\ probe.handled = 2
    /\ socket_manager.watched_sockets # <<>>

----------------------------------------------------------------------------
(* SpecLocking: the tasks that share the registry's mutex.  ctl is the      *)
(* HealthCheck handler of one control connection; probe holds who holds the *)
(* mutex and the AddSocket handler of another connection.  The event        *)
(* handler task and the health check task take the mutex for one call, and  *)
(* the disk changes at any moment.  A task runs whenever the mutex lets it. *)

NoAddSocket == [pc |-> "idle"]

InitLocking ==
    /\ \E configured \in DaemonConfigs : socket_manager = NewSocketManager(configured)
    /\ clock = 0
    /\ fs \in StartDisks
    /\ request = NoRequest
    /\ config = [watch_for_ssh_forward |-> TRUE, health_check |-> TRUE]
    /\ pc = "running"
    /\ startup_agents = {}
    /\ watcher_status = "Active"
    /\ os_watches = {}
    /\ watched_dirs = {}
    /\ os_events = <<>>
    /\ channel = <<>>
    /\ poll = PollOff
    /\ ctl = NoControl
    /\ conn = NoConnection
    /\ probe = [lock |-> "free", add |-> NoAddSocket]

\* ControlRequest::HealthCheck: the handler asks for the mutex.
HealthCheckArrives ==
    /\ ctl = NoControl
    /\ ctl' = [op |-> "HealthCheck", pc |-> "locking", sockets |-> <<>>,
               results |-> <<>>, healthy_count |-> 0, unhealthy_count |-> 0]
    /\ UNCHANGED <<regVars, fs, request, conn, probe, daemonVars, watcherVars>>

\* lock().await returns; let sockets = manager.get_ordered_sockets();
HealthCheckSnapshot ==
    /\ ctl.op = "HealthCheck"
    /\ ctl.pc = "locking"
    /\ probe.lock = "free"
    /\ ctl' = [ctl EXCEPT !.pc = "holding", !.sockets = get_ordered_sockets(socket_manager)]
    /\ probe' = [probe EXCEPT !.lock = "HealthCheck"]
    /\ UNCHANGED <<regVars, fs, request, conn, daemonVars, watcherVars>>

\* A HealthCheck that keeps its guard while it probes.
HealthCheckDrop_KeepsGuard ==
    /\ ctl.op = "HealthCheck"
    /\ ctl.pc = "holding"
    /\ ctl' = [ctl EXCEPT !.pc = "probing"]
    /\ UNCHANGED <<regVars, fs, request, conn, probe, daemonVars, watcherVars>>

\* drop(manager)
HealthCheckDrop ==
    /\ ctl.op = "HealthCheck"
    /\ ctl.pc = "holding"
    /\ ctl' = [ctl EXCEPT !.pc = "probing"]
    /\ probe' = [probe EXCEPT !.lock = "free"]
    /\ UNCHANGED <<regVars, fs, request, conn, daemonVars, watcherVars>>

\* One turn of the loop: check_socket_health of the next path of the snapshot.
HealthCheckProbe ==
    /\ ctl.op = "HealthCheck"
    /\ ctl.pc = "probing"
    /\ Len(ctl.results) < Len(ctl.sockets)
    /\ LET socket_path == ctl.sockets[Len(ctl.results) + 1] IN
       \E check \in check_socket_health(socket_path, fs) :
          ctl' = push_result(ctl, socket_path, check)
    /\ UNCHANGED <<regVars, fs, request, conn, probe, daemonVars, watcherVars>>

\* The loop is over: lock().await returns again, validate_and_cleanup runs
\* and the response is built; the guard goes when the arm ends.
HealthCheckRelock ==
    /\ ctl.op = "HealthCheck"
    /\ ctl.pc = "probing"
    /\ Len(ctl.results) = Len(ctl.sockets)
    /\ probe.lock = "free"
    /\ LET r == validate_and_cleanup(socket_manager, fs) IN
       /\ socket_manager' = r.mgr
       /\ ctl' = [op |-> "HealthCheck", pc |-> "done",
                  response |-> HealthCheckResult(ctl, r.removed)]
    /\ UNCHANGED <<clock, fs, request, conn, probe, daemonVars, watcherVars>>

\* The response is written to the connection.
HealthCheckReturns ==
    /\ ctl.op = "HealthCheck"
    /\ ctl.pc = "done"
    /\ ctl' = NoControl
    /\ UNCHANGED <<regVars, fs, request, conn, probe, daemonVars, watcherVars>>

\* ControlRequest::AddSocket on another connection: path.exists(), and the
\* handler asks for the mutex.
AddSocketArrives ==
    /\ probe.add = NoAddSocket
    /\ probe' = [probe EXCEPT !.add =
                    IF ForwardedAgent \in fs
                    THEN [pc |-> "locking"]
                    ELSE [pc |-> "done", response |-> Error("Socket does not exist")]]
    /\ UNCHANGED <<regVars, fs, request, conn, daemonVars, watcherVars, ctl>>

\* lock().await returns.
AddSocketLocks ==
    /\ probe.add.pc = "locking"
    /\ probe.lock = "free"
    /\ probe' = [probe EXCEPT !.lock = "AddSocket", !.add = [pc |-> "checking"]]
    /\ UNCHANGED <<regVars, fs, request, conn, daemonVars, watcherVars, ctl>>

\* if manager.is_watched(&path) || manager.is_configured(&path) { return .. }
AddSocketChecks ==
    /\ probe.add.pc = "checking"
    /\ probe' = IF \/ is_watched(socket_manager, ForwardedAgent)
                   \/ is_configured(socket_manager, ForwardedAgent)
                THEN [lock |-> "free",
                      add |-> [pc |-> "done", response |-> Error("Socket already tracked")]]
                ELSE [probe EXCEPT !.add = [pc |-> "adding"]]
    /\ UNCHANGED <<regVars, fs, request, conn, daemonVars, watcherVars, ctl>>

\* if manager.add_watched(path.clone()) { Success } else { Error }
AddSocketAdds ==
    /\ probe.add.pc = "adding"
    /\ \E now \in NowAfter(clock) :
       \E ws \in AddOrders(socket_manager, ForwardedAgent, now) :
          LET r == add_watched(socket_manager, ForwardedAgent, now, ws) IN
          /\ socket_manager' = r.mgr
          /\ clock' = IF r.ret THEN now ELSE clock
          /\ probe' = [lock |-> "free",
                       add |-> [pc |-> "done",
                                response |-> IF r.ret THEN Success("Added socket")
                                             ELSE Error("Failed to add socket")]]
    /\ UNCHANGED <<fs, request, conn, daemonVars, watcherVars, ctl>>

\* The response is written to the connection.
AddSocketReturns ==
    /\ probe.add.pc = "done"
    /\ probe' = [probe EXCEPT !.add = NoAddSocket]
    /\ UNCHANGED <<regVars, fs, request, conn, daemonVars, watcherVars, ctl>>

\* An event handler that does not wait for the mutex.
EventAdded_NoMutex ==
    /\ \E now \in NowAfter(clock) :
       \E ws \in AddOrders(socket_manager, ForwardedAgent, now) :
          LET r == add_watched(socket_manager, ForwardedAgent, now, ws) IN
          /\ socket_manager' = r.mgr
          /\ clock' = IF r.ret THEN now ELSE clock
    /\ UNCHANGED <<fs, request, conn, probe, daemonVars, watcherVars, ctl>>

\* The event handler task receives WatchEvent::Added for the forwarded agent:
\* lock().await, add_watched, and the guard goes.
EventAdded ==
    /\ probe.lock = "free"
    /\ \E now \in NowAfter(clock) :
       \E ws \in AddOrders(socket_manager, ForwardedAgent, now) :
          LET r == add_watched(socket_manager, ForwardedAgent, now, ws) IN
          /\ socket_manager' = r.mgr
          /\ clock' = IF r.ret THEN now ELSE clock
    /\ UNCHANGED <<fs, request, conn, probe, daemonVars, watcherVars, ctl>>

\* The event handler task receives WatchEvent::Removed for it.
EventRemoved ==
    /\ probe.lock = "free"
    /\ socket_manager' = remove_watched(socket_manager, ForwardedAgent).mgr
    /\ UNCHANGED <<clock, fs, request, conn, probe, daemonVars, watcherVars, ctl>>

\* The health check task: lock().await, validate_and_cleanup, drop(mgr).
HealthTickLocked ==
    /\ probe.lock = "free"
    /\ socket_manager' = validate_and_cleanup(socket_manager, fs).mgr
    /\ UNCHANGED <<clock, fs, request, conn, probe, daemonVars, watcherVars, ctl>>

NextLocking ==
    \/ HealthCheckArrives
    \/ HealthCheckSnapshot
    \/ HealthCheckDrop
    \/ HealthCheckProbe
    \/ HealthCheckRelock
    \/ HealthCheckReturns
    \/ AddSocketArrives
    \/ AddSocketLocks
    \/ AddSocketChecks
    \/ AddSocketAdds
    \/ AddSocketReturns
    \/ EventAdded
    \/ EventRemoved
    \/ HealthTickLocked
    \/ FsStep

SpecLocking == InitLocking /\ [][NextLocking]_vars

C35_RemovedWereMissing ==
    (ctl.op = "HealthCheck" /\ ctl.pc = "done") =>
        \A p \in Range(ctl.response.removed) :
            \E s \in Range(ctl.response.sockets) : s.path = p /\ s.status = "Missing"

\* C39: the AddSocket handler never answers "Failed to add socket".
C39_AddSocketNeverFails ==
    probe.add.pc = "done" => probe.add.response # Error("Failed to add socket")

\* C39: the AddSocket handler holds the mutex, has found the forwarded agent
\* untracked and is about to add it, while the HealthCheck handler waits for
\* the mutex.
C39_Witness ==
    /\ probe.add.pc = "adding"
    /\ probe.lock = "AddSocket"
    /\ ctl.op = "HealthCheck"
    /\ ctl.pc = "locking"
    /\ ~is_watched(socket_manager, ForwardedAgent)

----------------------------------------------------------------------------
(* The debouncer's callback and the watcher's set of subscribed             *)
(* directories, checked in the daemon's discovery.                          *)

\* C32: the callback, handling the creation of a directory of /tmp whose
\* name matches a parent pattern, leaves watched_dirs and the OS watches as
\* they are and sends no WatchEvent; handling the removal of a directory that
\* is in watched_dirs, it takes that directory out of watched_dirs and leaves
\* the others.
C32_CallbackAndSubscriptions ==
    [][(os_events # <<>> /\ DebouncerCallback) =>
          LET event == Head(os_events) IN
          /\ (/\ event.kind = "CreateFolder"
              /\ Parent(event.path) = TmpPath
              /\ should_watch_directory(event.path)) =>
                /\ watched_dirs' = watched_dirs
                /\ os_watches' = os_watches
                /\ channel' = channel
          /\ (event.kind = "Remove" /\ event.path \in watched_dirs) =>
                watched_dirs' = watched_dirs \ {event.path}]_vars

\* C32: the subscribed directory /tmp/ssh-a was removed and created again,
\* and the callback has both events before it.
C32_Witness ==
    /\ watcher_status = "Active"
    /\ "/tmp/ssh-a" \in watched_dirs
    /\ os_events = <<[kind |-> "Remove", path |-> "/tmp/ssh-a"],
                     [kind |-> "CreateFolder", path |-> "/tmp/ssh-a"]>>

\* C33: while the daemon serves Status, the watcher_status it reports is
\* Disabled iff watching is not enabled, PollingFallback iff watching is
\* enabled and the OS watcher was not established, the polling loop then
\* being the discovery that runs, and Active iff watching is enabled and the
\* OS watcher is subscribed to /tmp; with Active there is no polling loop.
C33_WatcherStatus ==
    pc = "running" =>
        /\ watcher_status = "Disabled" <=> ~watch_enabled(config)
        /\ watcher_status = "PollingFallback" <=>
              (watch_enabled(config) /\ TmpPath \notin os_watches)
        /\ watcher_status = "Active" <=>
              (watch_enabled(config) /\ TmpPath \in os_watches)
        /\ watcher_status = "PollingFallback" => poll.pc # "off"
        /\ watcher_status # "PollingFallback" => poll.pc = "off"

\* C33: the OS watcher failed, the daemon reports PollingFallback and the
\* polling loop has made its initial scan and found the forwarded agent.
C33_Witness ==
    /\ pc = "running"
    /\ watcher_status = "PollingFallback"
    /\ poll.pc = "ticking"
    /\ ForwardedAgent \in poll.known_agents

----------------------------------------------------------------------------
(* Entries of watched with the same created_at.                             *)

\* The place of the watched path p in the ordered view of m.
PlaceOf(m, p) ==
    CHOOSE i \in 1..watched_count(m) : get_ordered_sockets(m)[i] = p

\* Paths p and q are watched in m since the same instant.
Tied(m, p, q) ==
    /\ p # q
    /\ is_watched(m, p)
    /\ is_watched(m, q)
    /\ \E e, f \in Range(m.watched_sockets) :
          e.path = p /\ f.path = q /\ e.created_at = f.created_at

\* C34: two watched entries with equal created_at keep their relative
\* position in the ordered view, which get_ordered_sockets and
\* get_socket_info show alike, when a call adds or removes other entries.
C34_TiesKeepTheirOrder ==
    [][\A p, q \in Files :
          (Tied(socket_manager, p, q) /\ Tied(socket_manager', p, q)) =>
              /\ PlaceOf(socket_manager, p) < PlaceOf(socket_manager, q)
                    <=> PlaceOf(socket_manager', p) < PlaceOf(socket_manager', q)
              /\ get_socket_info(socket_manager', fs')[PlaceOf(socket_manager', p)].path = p]_vars

----------------------------------------------------------------------------
(* What discovery reaches in the end, under the fairness of SpecDiscovery.  *)

\* C36: with the health loop enabled, a watched entry whose path is not on
\* disk is eventually no longer watched (or the path is back), whether or
\* not a Removed event for it is ever delivered.
C36_HealthLoopRemovesAbsent ==
    (/\ config.health_check
     /\ is_watched(socket_manager, ForwardedAgent)
     /\ ForwardedAgent \notin fs)
        ~> (~is_watched(socket_manager, ForwardedAgent) \/ ForwardedAgent \in fs)

\* C36: the health loop is enabled, the agent the startup scan added went
\* before the watcher subscribed, and no event for it is queued anywhere.
C36_Witness ==
    /\ pc = "running"
    /\ config.health_check
    /\ watcher_status = "Active"
    /\ ForwardedAgent \in startup_agents
    /\ is_watched(socket_manager, ForwardedAgent)
    /\ ForwardedAgent \notin fs
    /\ os_events = <<>>
    /\ channel = <<>>

\* C37: in polling-fallback mode, once the polling loop has made its initial
\* scan, a forwarded-agent socket that is on disk is eventually a watched
\* entry (or is gone again).
C37_PollingWatchesExisting ==
    (/\ pc = "running"
     /\ watcher_status = "PollingFallback"
     /\ poll.pc = "ticking"
     /\ ForwardedAgent \in fs)
        ~> (is_watched(socket_manager, ForwardedAgent) \/ ForwardedAgent \notin fs)

----------------------------------------------------------------------------
(* SpecPollScan: the polling fallback with its scans on record.  probe      *)
(* holds the agents of the last scan that succeeded and, of the last tick,  *)
(* whether its scan succeeded, what it sent and what the loop remembered    *)
(* before it.                                                               *)

\* A tick that forgets what it knew when its scan fails.
poll_tick_ForgetsOnError(scan, known_agents) ==
    IF scan.ok
    THEN LET current_set == Range(scan.agents) IN
         {[sent |-> [i \in 1..Len(new) |-> Added(new[i])]
                        \o [i \in 1..Len(gone) |-> Removed(gone[i])],
           known_agents |-> current_set] :
              new \in IterationOrders(current_set \ known_agents),
              gone \in IterationOrders(known_agents \ current_set)}
    ELSE {[sent |-> <<>>, known_agents |-> {}]}

\* The arm of run_polling_loop's select for ticker.tick(): what the tick
\* sends and what the loop remembers after it, given the result of its scan.
poll_tick(scan, known_agents) ==
    IF scan.ok
    THEN LET current_set == Range(scan.agents) IN
         {[sent |-> [i \in 1..Len(new) |-> Added(new[i])]
                        \o [i \in 1..Len(gone) |-> Removed(gone[i])],
           known_agents |-> current_set] :
              new \in IterationOrders(current_set \ known_agents),
              gone \in IterationOrders(known_agents \ current_set)}
    ELSE {[sent |-> <<>>, known_agents |-> known_agents]}

InitPollScan ==
    /\ socket_manager = NewSocketManager(<<>>)
    /\ clock = 0
    /\ fs \in {disk \in SUBSET (TmpPaths \cup {TmpPath}) :
                  /\ TmpPath \in disk
                  /\ \A p \in disk \ {TmpPath} : Parent(p) \in disk}
    /\ request = NoRequest
    /\ config = [watch_for_ssh_forward |-> TRUE, health_check |-> FALSE]
    /\ pc = "running"
    /\ startup_agents = {}
    /\ watcher_status = "PollingFallback"
    /\ os_watches = {}
    /\ watched_dirs = {}
    /\ os_events = <<>>
    /\ channel = <<>>
    /\ poll = [pc |-> "initial_scan", known_agents |-> {}]
    /\ ctl = NoControl
    /\ conn = NoConnection
    /\ probe = [last_scan |-> {}, tick |-> None]

\* The initial scan: its agents are remembered, an error leaves none.
PollInitialScanSeen ==
    /\ poll.pc = "initial_scan"
    /\ \E scan \in scan_existing_agents(fs) :
          /\ poll' = [pc |-> "ticking", known_agents |-> Range(scan.agents)]
          /\ probe' = [probe EXCEPT !.last_scan = Range(scan.agents)]
    /\ UNCHANGED <<regVars, fs, request, conn, daemonVars, os_watches, watched_dirs,
                   os_events, channel, ctl>>

\* One tick of the loop.
PollTickSeen ==
    /\ poll.pc = "ticking"
    /\ \E scan \in scan_existing_agents(fs) :
       \E tick \in poll_tick(scan, poll.known_agents) :
          /\ scan.ok => Len(channel) < MaxChannel
          /\ channel' = channel \o tick.sent
          /\ poll' = [poll EXCEPT !.known_agents = tick.known_agents]
          /\ probe' = [last_scan |-> IF scan.ok THEN Range(scan.agents) ELSE probe.last_scan,
                       tick |-> Some([ok |-> scan.ok, sent |-> tick.sent,
                                      known_before |-> poll.known_agents])]
    /\ UNCHANGED <<regVars, fs, request, conn, daemonVars, os_watches, watched_dirs,
                   os_events, ctl>>

NextPollScan ==
    \/ PollInitialScanSeen
    \/ PollTickSeen
    \/ EventHandler
    \/ TmpChanges

SpecPollScan == InitPollScan /\ [][NextPollScan]_vars

\* C38: a tick whose scan failed has sent nothing and left the remembered
\* set as it was, and the loop is still ticking; the remembered set is at
\* all times the agents of the last scan that succeeded, so the tick after a
\* failure sends Added and Removed for the difference to that scan.
C38_FailedScanChangesNothing ==
    /\ [](/\ poll.pc = "ticking" => poll.known_agents = probe.last_scan
          /\ (probe.tick # None /\ ~probe.tick[1].ok) =>
                /\ probe.tick[1].sent = <<>>
                /\ poll.known_agents = probe.tick[1].known_before
                /\ poll.pc = "ticking")
    /\ [][(probe'.tick # None /\ probe' # probe /\ probe'.tick[1].ok) =>
             \A p \in Files :
                /\ Occurrences(probe'.tick[1].sent, Added(p)) =
                      IF p \in AgentsOnDisk(fs) \ probe.last_scan THEN 1 ELSE 0
                /\ Occurrences(probe'.tick[1].sent, Removed(p)) =
                      IF p \in probe.last_scan \ AgentsOnDisk(fs) THEN 1 ELSE 0]_vars

\* C38: the last tick's scan failed while the loop remembered one agent and
\* another was on disk; nothing was sent and the handler has nothing to do.
C38_Witness ==
    /\ probe.tick = Some([ok |-> FALSE, sent |-> <<>>,
                          known_before |-> {"/tmp/ssh-a/agent.1"}])
    /\ AgentsOnDisk(fs) = {"/tmp/ssh-b/agent.2"}
    /\ channel = <<>>

====
